---- MODULE Spec2Model ----
(***************************************************************************)
(* Model of the stereo-vision disparity solver: the disparity graph        *)
(* (DisparityGraph), the labeling store (Labeling), the brute-force finder *)
(* (BFDisparityFinder), the Boolean availability graph (BooleanGraph) and  *)
(* the diffusion finder (DiffusionDisparityFinder).                        *)
(*                                                                         *)
(* Numbers.  size_t values are naturals; the one place where the code      *)
(* relies on wrap-around (the unsigned difference of two disparities in    *)
(* DisparityGraph::penalty) is computed on 64-bit words held as eight      *)
(* base-256 limbs.  A double is held exactly, as a fraction <<n, d>> in    *)
(* lowest terms with d > 0; <<1, 0>> is +infinity, <<-1, 0>> is -infinity  *)
(* and <<0, 0>> is NaN.                                                    *)
(***************************************************************************)
EXTENDS Integers, Sequences, FiniteSets, TLC

\* ---------------------------------------------------------------- bounds
MaxRows == 3
MaxColumns == 3
MaxExtraColumns == 1
MaxSmallRows == 2
MaxRemovals == 4
MaxPixels == 4
MaxDenominator == 64
\* The most rounds of the loop of DiffusionDisparityFinder::find.
MaxIterations == 50
\* The most node updates and iterations made on the penalties of one finder.
MaxUpdates == 3

\* Pixel colours and consistency terms the images and graphs are built from.
Colors == {0, 1}
Consistencies == {0, 1, 2}

VARIABLES
    leftImage_,     \* DisparityGraph::leftImage_   : [rows, columns, data]
    rightImage_,    \* DisparityGraph::rightImage_  : [rows, columns, data]
    consistency_,   \* DisparityGraph::consistency_
    pc,             \* position of the running operation
    call,           \* the last operation called and its arguments
    ret,            \* what that operation returned, or that it threw
    nodes_,         \* Labeling::nodes_   : the disparity of every pixel
    penalty_,       \* Labeling::penalty_ : the cached total penalty
    finder,         \* the state of the running finder
    boolean         \* the BooleanGraph of the diffusion finder

vars == <<leftImage_, rightImage_, consistency_, pc, call, ret,
          nodes_, penalty_, finder, boolean>>

graphVars == <<leftImage_, rightImage_, consistency_>>

\* ------------------------------------------------------ double arithmetic
Abs(x) == IF x < 0 THEN -x ELSE x

RECURSIVE GCD(_, _)
GCD(a, b) == IF b = 0 THEN a ELSE GCD(b, a % b)

Sign(x) == IF x > 0 THEN 1 ELSE IF x < 0 THEN -1 ELSE 0

\* The double with value n / d (d >= 0), in lowest terms.
Double(n, d) ==
    IF d = 0 THEN <<Sign(n), 0>>
    ELSE LET g == GCD(Abs(n), d) IN <<n \div g, d \div g>>

Infinity == <<1, 0>>
NaN == <<0, 0>>

isfinite(x) == x[2] # 0

DAdd(x, y) ==
    IF x = NaN \/ y = NaN THEN NaN
    ELSE IF x[2] = 0 /\ y[2] = 0 THEN (IF x = y THEN x ELSE NaN)
    ELSE IF x[2] = 0 THEN x
    ELSE IF y[2] = 0 THEN y
    ELSE Double(x[1] * y[2] + y[1] * x[2], x[2] * y[2])

DNeg(x) == <<-x[1], x[2]>>

DSub(x, y) == DAdd(x, DNeg(y))

DMul(x, y) ==
    IF x = NaN \/ y = NaN THEN NaN
    ELSE IF x[2] = 0 \/ y[2] = 0 THEN <<Sign(x[1]) * Sign(y[1]), 0>>
    ELSE Double(x[1] * y[1], x[2] * y[2])

\* x / n for a count n converted to double (n = 0 gives an infinity or NaN).
DDiv(x, n) ==
    IF x = NaN THEN NaN
    ELSE IF x[2] = 0 THEN x
    ELSE Double(x[1], x[2] * n)

DLess(x, y) ==
    /\ x # NaN
    /\ y # NaN
    /\ x # y
    /\ IF x[2] = 0 THEN x[1] < 0
       ELSE IF y[2] = 0 THEN y[1] > 0
       ELSE x[1] * y[2] < y[1] * x[2]

DLessEq(x, y) == x # NaN /\ y # NaN /\ (x = y \/ DLess(x, y))

\* ---------------------------------------------- size_t (64-bit) arithmetic
Limbs == 8
LimbBase == 256

\* The eight base-256 limbs (least significant first) of a natural n < 2^31.
ToLimbs(n) ==
    [i \in 1..Limbs |->
        IF i = 1 THEN n % LimbBase
        ELSE IF i = 2 THEN (n \div LimbBase) % LimbBase
        ELSE IF i = 3 THEN (n \div (LimbBase * LimbBase)) % LimbBase
        ELSE IF i = 4 THEN (n \div (LimbBase * LimbBase * LimbBase)) % LimbBase
        ELSE 0]

RECURSIVE Carry(_, _, _)
\* Propagates carries through the limb sums s from limb i on; drops the
\* carry out of the last limb (arithmetic modulo 2^64).
Carry(s, i, c) ==
    IF i > Limbs THEN s
    ELSE LET t == s[i] + c
         IN  Carry([s EXCEPT ![i] = t % LimbBase], i + 1, t \div LimbBase)

\* 2^64 - x: the complement of every limb, plus one.
NegLimbs(x) ==
    Carry([i \in 1..Limbs |-> (LimbBase - 1) - x[i] + (IF i = 1 THEN 1 ELSE 0)],
          1, 0)

RECURSIVE ColumnSum(_, _, _, _)
\* Sum of x[j] * y[i + 1 - j] for j in 1..i: column i of the product.
ColumnSum(x, y, i, j) ==
    IF j > i THEN 0
    ELSE x[j] * y[i + 1 - j] + ColumnSum(x, y, i, j + 1)

MulLimbs(x, y) ==
    Carry([i \in 1..Limbs |-> ColumnSum(x, y, i, 1)], 1, 0)

\* The value of a word whose upper four limbs are zero.
FromLimbs(x) ==
    x[1] + LimbBase * (x[2] + LimbBase * (x[3] + LimbBase * x[4]))

\* a - b on size_t.
SizeSub(a, b) == IF a >= b THEN ToLimbs(a - b) ELSE NegLimbs(ToLimbs(b - a))

\* ------------------------------------------------------------------ images
\* Matrix<Color>: rows, columns and the data, indexed from 0.
Matrix(rowsCount, columnsCount, pattern) ==
    [rows |-> rowsCount, columns |-> columnsCount,
     data |-> [r \in 0..(rowsCount - 1) |-> [c \in 0..(columnsCount - 1) |->
                (pattern[1] * r + pattern[2] * c + pattern[3]) % Cardinality(Colors)]]]

\* The pictures an image is drawn from: flat, stripes and a diagonal ramp.
Patterns == {<<0, 0, 0>>, <<0, 1, 0>>, <<0, 1, 1>>, <<1, 1, 0>>}

\* ---------------------------------------------------------- DisparityGraph
DisparityNode(r, c, d) == [row |-> r, column |-> c, disparity |-> d]

rows == rightImage_.rows

columns == rightImage_.columns

\* TRUE when checkNode returns, FALSE when it throws invalid_argument.
checkNode(node) ==
    IF node.row >= rightImage_.rows THEN FALSE
    ELSE IF node.column >= rightImage_.columns THEN FALSE
    ELSE IF node.column + node.disparity >= leftImage_.columns THEN FALSE
    ELSE TRUE

\* The message of the invalid_argument checkNode throws.
checkNodeWhat(node) ==
    IF node.row >= rightImage_.rows
    THEN "Row should not be greater than the last one."
    ELSE IF node.column >= rightImage_.columns
    THEN "Column should not be greater than the last one."
    ELSE "Disparity should not lead to image overflow."

\* TRUE when checkEdge_ returns, FALSE when it throws invalid_argument.
checkEdge_(nodeA, nodeB) ==
    IF nodeA.column = nodeB.column /\ nodeA.row = nodeB.row THEN FALSE
    ELSE checkNode(nodeA) /\ checkNode(nodeB)

Bool(b) == IF b THEN 1 ELSE 0

\* The count of an earlier revision of the graph, whose upper tests compare
\* with rows() and columns() instead of the last row and column.
nodeNeighborsCountNoLast(node, directed) ==
    Bool(node.row > 0)
    + Bool(node.row < rightImage_.rows)
    + Bool(node.column > 0)
    + Bool(node.column < rightImage_.columns)

nodeNeighborsCount_(node, directed) ==
    Bool(node.row > 0 /\ ~directed)
    + Bool(node.row < rightImage_.rows - 1)
    + Bool(node.column > 0 /\ ~directed)
    + Bool(node.column < rightImage_.columns - 1)

\* edgeExists of an earlier revision: the rows are swapped the wrong way
\* round, so the unsigned difference of two distinct rows wraps to a huge
\* value and every vertical pair is refused.
edgeExistsRowWrap(nodeA, nodeB) ==
    IF nodeA.row # nodeB.row /\ nodeA.column # nodeB.column THEN FALSE
    ELSE IF nodeA.row # nodeB.row THEN FALSE
    ELSE LET swapped == nodeA.column > nodeB.column
             leftColumn == IF swapped THEN nodeB.column ELSE nodeA.column
             leftDisparity == IF swapped THEN nodeB.disparity ELSE nodeA.disparity
             rightColumn == IF swapped THEN nodeA.column ELSE nodeB.column
             rightDisparity == IF swapped THEN nodeA.disparity ELSE nodeB.disparity
         IN  ~(rightColumn - leftColumn > 1 \/ rightDisparity + 1 < leftDisparity)

\* Defined when checkEdge_(nodeA, nodeB) returns.
edgeExists(nodeA, nodeB) ==
    IF nodeA.row # nodeB.row /\ nodeA.column # nodeB.column THEN FALSE
    ELSE LET topRow == IF nodeA.row > nodeB.row THEN nodeB.row ELSE nodeA.row
             bottomRow == IF nodeA.row > nodeB.row THEN nodeA.row ELSE nodeB.row
         IN  IF topRow + 1 < bottomRow THEN FALSE
             ELSE IF nodeA.column = nodeB.column THEN TRUE
             ELSE LET swapped == nodeA.column > nodeB.column
                      leftColumn == IF swapped THEN nodeB.column ELSE nodeA.column
                      leftDisparity == IF swapped THEN nodeB.disparity
                                       ELSE nodeA.disparity
                      rightColumn == IF swapped THEN nodeA.column ELSE nodeB.column
                      rightDisparity == IF swapped THEN nodeA.disparity
                                        ELSE nodeB.disparity
                  IN  ~(leftColumn + 1 < rightColumn
                        \/ rightDisparity + 1 < leftDisparity)

\* Defined when checkNode(node) returns.
nodePenalty(node) ==
    LET difference == rightImage_.data[node.row][node.column]
                      - leftImage_.data[node.row][node.column + node.disparity]
    IN  Double(difference * difference, 1)

\* The square of a difference that stops at 0 instead of wrapping.
SizeSquaredDifferenceClamped(a, b) ==
    IF a >= b THEN (a - b) * (a - b) ELSE 0

\* (a - b) * (a - b) on size_t: exact when a >= b, and through the wrapped
\* difference otherwise.
SizeSquaredDifference(a, b) ==
    IF a >= b THEN (a - b) * (a - b)
    ELSE FromLimbs(MulLimbs(SizeSub(a, b), SizeSub(a, b)))

\* Defined when checkEdge_(nodeA, nodeB) returns.
penalty(nodeA, nodeB) ==
    IF ~edgeExists(nodeA, nodeB) THEN Infinity
    ELSE LET nodesPenalty ==
                 DAdd(DDiv(nodePenalty(nodeA), nodeNeighborsCount_(nodeA, FALSE)),
                      DDiv(nodePenalty(nodeB), nodeNeighborsCount_(nodeB, FALSE)))
             neighboringPenalty ==
                 SizeSquaredDifference(nodeA.disparity, nodeB.disparity)
         IN  DAdd(nodesPenalty,
                  DMul(Double(consistency_, 1), Double(neighboringPenalty, 1)))

\* availableNodes filled column after column.
availableNodesColumnMajor ==
    [i \in 1..(rightImage_.rows * rightImage_.columns) |->
        DisparityNode((i - 1) % rightImage_.rows,
                      (i - 1) \div rightImage_.rows, 0)]

availableNodes ==
    [i \in 1..(rightImage_.rows * rightImage_.columns) |->
        DisparityNode((i - 1) \div rightImage_.columns,
                      (i - 1) % rightImage_.columns, 0)]

\* nodeNeighbors with the upper tests of the earlier nodeNeighborsCount_:
\* against rows() and columns() instead of the last row and column.
nodeNeighborsNoLast(node, directed) ==
    LET right == IF node.column < rightImage_.columns
                 THEN <<DisparityNode(node.row, node.column + 1, 0)>> ELSE <<>>
        down  == IF node.row < rightImage_.rows
                 THEN <<DisparityNode(node.row + 1, node.column, 0)>> ELSE <<>>
        left  == IF node.column > 0
                 THEN <<DisparityNode(node.row, node.column - 1, 0)>> ELSE <<>>
        up    == IF node.row > 0
                 THEN <<DisparityNode(node.row - 1, node.column, 0)>> ELSE <<>>
    IN  IF directed THEN right \o down
        ELSE right \o down \o left \o up

\* Defined when checkNode(node) returns.
nodeNeighbors(node, directed) ==
    LET right == IF node.column < rightImage_.columns - 1
                 THEN <<DisparityNode(node.row, node.column + 1, 0)>> ELSE <<>>
        down  == IF node.row < rightImage_.rows - 1
                 THEN <<DisparityNode(node.row + 1, node.column, 0)>> ELSE <<>>
        left  == IF node.column > 0
                 THEN <<DisparityNode(node.row, node.column - 1, 0)>> ELSE <<>>
        up    == IF node.row > 0
                 THEN <<DisparityNode(node.row - 1, node.column, 0)>> ELSE <<>>
    IN  IF directed THEN right \o down
        ELSE right \o down \o left \o up

SeqToSet(seq) == {seq[i] : i \in 1..Len(seq)}

\* The sequence first, first + 1, ..., last - 1.
Range(first, last) ==
    [i \in 1..(IF last > first THEN last - first ELSE 0) |-> first + i - 1]

\* neighborDisparities with every upper limit taken from the left image.
neighborDisparitiesLeftColumns(node, neighbor) ==
    LET zeroed == [neighbor EXCEPT !.disparity = 0]
    IN  IF node.row # neighbor.row /\ ~edgeExists(node, zeroed) THEN <<>>
        ELSE IF node.row # neighbor.row
            THEN Range(0, leftImage_.columns - neighbor.column)
        ELSE IF node.column = neighbor.column + 1
            THEN Range(0, node.disparity + 2)
        ELSE IF node.column + 1 = neighbor.column
            THEN Range(0, leftImage_.columns - neighbor.column)
        ELSE <<>>

\* Defined when checkNode(node) and checkNode(neighbor at disparity 0) return.
neighborDisparities(node, neighbor) ==
    LET zeroed == [neighbor EXCEPT !.disparity = 0]
    IN  IF node.row # neighbor.row /\ ~edgeExists(node, zeroed) THEN <<>>
        ELSE IF node.row # neighbor.row
            THEN Range(0, rightImage_.columns - neighbor.column)
        ELSE IF node.column = neighbor.column + 1
            THEN Range(0, node.disparity + 2)
        ELSE IF node.column + 1 = neighbor.column
            THEN Range(IF zeroed.disparity # 0 THEN zeroed.disparity - 1 ELSE 0,
                       rightImage_.columns - neighbor.column)
        ELSE <<>>

\* ------------------------------------------------- the graphs under study
Dimensions == (1..MaxRows) \X (1..MaxColumns) \X (0..MaxExtraColumns)

\* The sizes the labelings and the finders are run on.
SmallDimensions ==
    (1..MaxSmallRows) \X (1..MaxColumns) \X (0..MaxExtraColumns)

\* The image pairs the labelings and the finders are run on.
SmallPatterns ==
    {<<<<0, 0, 0>>, <<0, 0, 0>>>>, <<<<0, 1, 0>>, <<0, 1, 1>>>>,
     <<<<1, 1, 0>>, <<0, 0, 0>>>>}

\* Every graph the constructor accepts within the bounds: the images have
\* the same number of rows and the left one is at least as wide.
GraphIs(d, leftPattern, rightPattern, consistency) ==
    /\ leftImage_ = Matrix(d[1], d[2] + d[3], leftPattern)
    /\ rightImage_ = Matrix(d[1], d[2], rightPattern)
    /\ consistency_ = consistency

\* The nodes the queries are made on: every valid node, and the nearest
\* invalid ones (one row too low, one column too far, one disparity too big).
ProbeNodes ==
    {n \in [row : 0..rightImage_.rows, column : 0..rightImage_.columns,
            disparity : 0..leftImage_.columns] :
        \/ checkNode(n)
        \/ n.row = rightImage_.rows /\ n.column = 0 /\ n.disparity = 0
        \/ n.row = 0 /\ n.column = rightImage_.columns /\ n.disparity = 0
        \/ /\ n.row < rightImage_.rows
           /\ n.column < rightImage_.columns
           /\ n.column + n.disparity = leftImage_.columns}

ValidNodes == {n \in ProbeNodes : checkNode(n)}

Pixels == {n \in ValidNodes : n.disparity = 0}

Threw == [threw |-> TRUE]

\* throw invalid_argument(what)
Thrown(what) == [threw |-> TRUE, what |-> what]

NoCall == [op |-> "none"]

NoReturn == [threw |-> FALSE]

Returned(v) == [threw |-> FALSE, value |-> v]

\* ------------------------------------------------ queries on the graph
InitGraph ==
    /\ \E d \in Dimensions, leftPattern \in Patterns, rightPattern \in Patterns,
          consistency \in Consistencies :
          GraphIs(d, leftPattern, rightPattern, consistency)
    /\ pc = "constructed"
    /\ call = NoCall
    /\ ret = NoReturn
    /\ nodes_ = <<>>
    /\ penalty_ = Infinity
    /\ finder = <<>>
    /\ boolean = <<>>

PenaltyCall ==
    /\ pc = "constructed"
    /\ \E nodeA \in ProbeNodes, nodeB \in ProbeNodes :
          /\ call' = [op |-> "penalty", nodeA |-> nodeA, nodeB |-> nodeB]
          /\ ret' = IF checkEdge_(nodeA, nodeB)
                    THEN Returned(penalty(nodeA, nodeB)) ELSE Threw
    /\ pc' = "returned"
    /\ UNCHANGED <<graphVars, nodes_, penalty_, finder, boolean>>

EdgeExistsCall ==
    /\ pc = "constructed"
    /\ \E nodeA \in ProbeNodes, nodeB \in ProbeNodes :
          /\ call' = [op |-> "edgeExists", nodeA |-> nodeA, nodeB |-> nodeB]
          /\ ret' = IF checkEdge_(nodeA, nodeB)
                    THEN Returned(edgeExists(nodeA, nodeB)) ELSE Threw
    /\ pc' = "returned"
    /\ UNCHANGED <<graphVars, nodes_, penalty_, finder, boolean>>

NeighborDisparitiesCall ==
    /\ pc = "constructed"
    /\ \E node \in ProbeNodes, neighbor \in ProbeNodes :
          /\ call' = [op |-> "neighborDisparities", nodeA |-> node,
                      nodeB |-> neighbor]
          /\ ret' = IF checkNode(node)
                       /\ checkNode([neighbor EXCEPT !.disparity = 0])
                    THEN Returned(neighborDisparities(node, neighbor))
                    ELSE Threw
    /\ pc' = "returned"
    /\ UNCHANGED <<graphVars, nodes_, penalty_, finder, boolean>>

NodeNeighborsCall ==
    /\ pc = "constructed"
    /\ \E node \in ProbeNodes, directed \in BOOLEAN :
          /\ call' = [op |-> "nodeNeighbors", nodeA |-> node,
                      directed |-> directed]
          /\ ret' = IF checkNode(node)
                    THEN Returned(nodeNeighbors(node, directed)) ELSE Threw
    /\ pc' = "returned"
    /\ UNCHANGED <<graphVars, nodes_, penalty_, finder, boolean>>

NextGraph ==
    \/ PenaltyCall
    \/ EdgeExistsCall
    \/ NeighborDisparitiesCall
    \/ NodeNeighborsCall

SpecGraph == InitGraph /\ [][NextGraph]_vars

\* ------------------------------------------- properties of the graph queries
\* What the properties are stated with, written from the definitions of the
\* quantities and not from the operators above.
IsValid(n) ==
    /\ n.row < rightImage_.rows
    /\ n.column < rightImage_.columns
    /\ n.column + n.disparity < leftImage_.columns

Distance(a, b) == Abs(a.row - b.row) + Abs(a.column - b.column)

\* q_t(k): squared difference of the right pixel t and the left pixel shifted by k.
Q(n) ==
    LET diff == rightImage_.data[n.row][n.column]
                - leftImage_.data[n.row][n.column + n.disparity]
    IN  diff * diff

\* |N(t)|: the 4-neighbours of t inside the right image.
NeighborsInside(n) ==
    {p \in [row : 0..(rightImage_.rows - 1),
            column : 0..(rightImage_.columns - 1)] : Distance(n, p) = 1}

\* The ordering rule between a node and the node one column to its right.
Ordered(leftNode, rightNode) == rightNode.disparity + 1 >= leftNode.disparity

Feasible(a, b) ==
    /\ Distance(a, b) = 1
    /\ (a.row = b.row /\ a.column < b.column) => Ordered(a, b)
    /\ (a.row = b.row /\ a.column > b.column) => Ordered(b, a)

Increasing(seq) == \A i \in 1..(Len(seq) - 1) : seq[i] < seq[i + 1]

Asked(op) == call.op = op

\* C1: for valid nodes A, B with an edge, penalty(A,B) equals
\* q_A/|N(A)| + q_B/|N(B)| + consistency * (k_A - k_B)^2, where |N(t)| is the
\* number of 4-neighbours inside the right image (the number of nodes
\* nodeNeighbors(t, false) returns; 2, 3 or 4 when the image has at least two
\* rows and two columns); for valid nodes at distinct pixels without an edge
\* the penalty is +infinity.
C1_PenaltyFormula ==
    (Asked("penalty") /\ IsValid(call.nodeA) /\ IsValid(call.nodeB)
        /\ Distance(call.nodeA, call.nodeB) > 0) =>
    LET a == call.nodeA
        b == call.nodeB
        na == Cardinality(NeighborsInside(a))
        nb == Cardinality(NeighborsInside(b))
        k == a.disparity - b.disparity
    IN  /\ ~ret.threw
        /\ na = Len(nodeNeighbors(a, FALSE))
        /\ nb = Len(nodeNeighbors(b, FALSE))
        /\ (rightImage_.rows >= 2 /\ rightImage_.columns >= 2) =>
              na = 4 - Bool(a.row \in {0, rightImage_.rows - 1})
                     - Bool(a.column \in {0, rightImage_.columns - 1})
        /\ IF edgeExists(a, b)
           THEN /\ ret.value[2] > 0
                /\ ret.value[1] * na * nb =
                       ret.value[2] * (Q(a) * nb + Q(b) * na
                                       + consistency_ * k * k * na * nb)
           ELSE ret.value = Infinity

\* An inner node with four neighbours and a non-zero own penalty, its
\* disparity the smaller one, under a consistency term other than 0 and 1.
C1_Witness ==
    /\ Asked("penalty")
    /\ ~ret.threw
    /\ edgeExists(call.nodeA, call.nodeB)
    /\ Cardinality(NeighborsInside(call.nodeA)) = 4
    /\ Q(call.nodeA) > 0
    /\ call.nodeA.disparity < call.nodeB.disparity
    /\ consistency_ = 2
    /\ isfinite(ret.value)

\* C2: for valid nodes at distinct pixels edgeExists is true exactly when the
\* pixels are at distance 1 and, in the same row, the right node's disparity
\* plus one is at least the left node's; vertical neighbours are connected
\* whatever their disparities, diagonal and farther pairs never.
C2_EdgeExists ==
    (Asked("edgeExists") /\ IsValid(call.nodeA) /\ IsValid(call.nodeB)
        /\ Distance(call.nodeA, call.nodeB) > 0) =>
    /\ ~ret.threw
    /\ ret.value = Feasible(call.nodeA, call.nodeB)
    /\ (call.nodeA.column = call.nodeB.column
        /\ Distance(call.nodeA, call.nodeB) = 1) => ret.value
    /\ Distance(call.nodeA, call.nodeB) >= 2 => ~ret.value

\* Vertical neighbours with disparities 3 and 0 are connected.
C2_Witness ==
    /\ Asked("edgeExists")
    /\ ~ret.threw
    /\ call.nodeA.column = call.nodeB.column
    /\ call.nodeA.disparity = 3
    /\ call.nodeB.disparity = 0
    /\ ret.value

\* C9: for a valid node t and a pixel t', k' is in neighborDisparities(t, t')
\* exactly when (t', k') is a valid node connected with t; the result is
\* strictly increasing and contiguous, and empty when t' is not at distance 1.
C9_NeighborDisparitiesAreTheEdges ==
    (Asked("neighborDisparities") /\ IsValid(call.nodeA)
        /\ IsValid([call.nodeB EXCEPT !.disparity = 0])) =>
    LET t == call.nodeA
        labels == {k \in 0..leftImage_.columns :
                      LET n == [call.nodeB EXCEPT !.disparity = k]
                      IN  IsValid(n) /\ Feasible(t, n)}
    IN  /\ ~ret.threw
        /\ SeqToSet(ret.value) = labels
        /\ Increasing(ret.value)
        /\ \A i \in 1..(Len(ret.value) - 1) : ret.value[i + 1] = ret.value[i] + 1
        /\ Distance(t, call.nodeB) # 1 => ret.value = <<>>

nodeIterator_(node) == node.row * columns + node.column + 1

\* Labeling::neighbors on the labeling nodes: the neighbours of the graph
\* with the disparities the labeling gives them.
neighbors(nodes, node, directed) ==
    LET graphNeighbors == nodeNeighbors(node, directed)
    IN  [i \in 1..Len(graphNeighbors) |-> nodes[nodeIterator_(graphNeighbors[i])]]

RECURSIVE SortedSeq(_)
\* The elements of a finite set of naturals in increasing order.
SortedSeq(S) ==
    IF S = {} THEN <<>>
    ELSE LET least == CHOOSE x \in S : \A y \in S : x <= y
         IN  <<least>> \o SortedSeq(S \ {least})

\* Labeling::nodeDisparities on the labeling nodes: the values that the
\* multiset of all neighborDisparities(neighbor, node) holds once per neighbour.
nodeDisparities(nodes, node) ==
    LET neighborsNow == neighbors(nodes, node, FALSE)
        lists == [i \in 1..Len(neighborsNow) |->
                     neighborDisparities(neighborsNow[i], node)]
        count(k) == Cardinality({<<i, j>> \in (1..Len(lists)) \X (0..leftImage_.columns) :
                                    j + 1 <= Len(lists[i]) /\ lists[i][j + 1] = k})
        values == UNION {SeqToSet(lists[i]) : i \in 1..Len(lists)}
    IN  IF values = {} THEN <<>>
        ELSE SortedSeq({k \in values : count(k) = Len(neighborsNow)})

RECURSIVE EdgePenalties(_, _)
\* The penalties Labeling::penalty adds up, in its order: for every node from
\* position i on, the penalty of the edge to each of its directed neighbours.
EdgePenalties(nodes, i) ==
    IF i > Len(nodes) THEN <<>>
    ELSE LET directedNeighbors == neighbors(nodes, nodes[i], TRUE)
         IN  [j \in 1..Len(directedNeighbors) |->
                 penalty(nodes[i], directedNeighbors[j])]
             \o EdgePenalties(nodes, i + 1)

RECURSIVE DSum(_)
\* The sum of the terms, added one after the other to 0.
DSum(terms) ==
    IF terms = <<>> THEN Double(0, 1)
    ELSE DAdd(DSum(SubSeq(terms, 1, Len(terms) - 1)), terms[Len(terms)])

\* Labeling::penalty adding the edges to all the neighbours of every node.
labelingPenaltyUndirected(nodes, cached) ==
    IF isfinite(cached) THEN cached
    ELSE DSum(EdgePenalties(nodes, 1) \o EdgePenalties(nodes, 1))

\* What Labeling::penalty leaves in penalty_ given the nodes and the cache.
labelingPenalty(nodes, cached) ==
    IF isfinite(cached) THEN cached ELSE DSum(EdgePenalties(nodes, 1))

\* setNode without the test of the disparity against nodeDisparities.
setNodeAcceptsValid(nodes, node) == checkNode(node)

\* TRUE when Labeling::setNode returns, FALSE when it throws.
setNodeAccepts(nodes, node) ==
    /\ checkNode(node)
    /\ node.disparity \in SeqToSet(nodeDisparities(nodes, node))

\* The message of the invalid_argument Labeling::setNode throws.
setNodeWhat(nodes, node) ==
    IF ~checkNode(node) THEN checkNodeWhat(node)
    ELSE "Provided disparity is not available."

\* The nodes after an accepted Labeling::setNode.
setNode(nodes, node) == [nodes EXCEPT ![nodeIterator_(node)] = node]

disparity(nodes, node) == nodes[nodeIterator_(node)].disparity

\* --------------------------------------------- operations on a Labeling
InitLabeling ==
    /\ \E d \in SmallDimensions, patterns \in SmallPatterns,
          consistency \in Consistencies \ {0} :
          GraphIs(d, patterns[1], patterns[2], consistency)
    /\ pc = "labeling"
    /\ call = NoCall
    /\ ret = NoReturn
    /\ nodes_ = availableNodes
    /\ penalty_ = Infinity
    /\ finder = <<>>
    /\ boolean = <<>>

SetNode ==
    /\ pc = "labeling"
    /\ \E node \in ProbeNodes :
          /\ call' = [op |-> "setNode", nodeA |-> node]
          /\ IF setNodeAccepts(nodes_, node)
             THEN /\ nodes_' = setNode(nodes_, node)
                  /\ penalty_' = Infinity
                  /\ ret' = Returned(TRUE)
             ELSE /\ ret' = Thrown(setNodeWhat(nodes_, node))
                  /\ UNCHANGED <<nodes_, penalty_>>
    /\ UNCHANGED <<graphVars, pc, finder, boolean>>

\* Labeling::penalty; the assertion on the sum ends the program when it fails.
Penalty ==
    /\ pc = "labeling"
    /\ call' = [op |-> "penalty"]
    /\ penalty_' = labelingPenalty(nodes_, penalty_)
    /\ IF isfinite(penalty_')
       THEN ret' = Returned(penalty_') /\ pc' = pc
       ELSE ret' = NoReturn /\ pc' = "assertion failed"
    /\ UNCHANGED <<graphVars, nodes_, finder, boolean>>

NodeDisparities ==
    /\ pc = "labeling"
    /\ \E node \in ProbeNodes :
          /\ call' = [op |-> "nodeDisparities", nodeA |-> node]
          /\ ret' = IF checkNode(node)
                    THEN Returned(nodeDisparities(nodes_, node)) ELSE Threw
    /\ UNCHANGED <<graphVars, pc, nodes_, penalty_, finder, boolean>>

NextLabeling ==
    \/ SetNode
    \/ Penalty
    \/ NodeDisparities

SpecLabeling == InitLabeling /\ [][NextLabeling]_vars

\* ------------------------------------------------ properties of a Labeling
\* Positions of two pixels next to each other in the grid.
AdjacentPositions ==
    {e \in (1..Len(nodes_)) \X (1..Len(nodes_)) :
        Distance(nodes_[e[1]], nodes_[e[2]]) = 1}

\* C3: after any sequence of setNode calls on a new Labeling every pair of
\* adjacent pixels, with their current labels, has an edge, so that the sum
\* penalty() computes is finite and its assertion does not fail.
C3_LabelingStaysFeasible ==
    call.op \in {"setNode", "penalty"} =>
        /\ \A e \in AdjacentPositions : Feasible(nodes_[e[1]], nodes_[e[2]])
        /\ pc # "assertion failed"

\* C8: nodeDisparities(t) is, in increasing order and without duplicates, the
\* labels k for which (t.row, t.column, k) is a valid node that has an edge to
\* every neighbour inside the grid carrying its current label.
C8_NodeDisparities ==
    (Asked("nodeDisparities") /\ IsValid(call.nodeA)) =>
    LET t == call.nodeA
        labels == {k \in 0..leftImage_.columns :
                      LET n == [t EXCEPT !.disparity = k]
                      IN  /\ IsValid(n)
                          /\ \A i \in 1..Len(nodes_) :
                                Distance(n, nodes_[i]) = 1 => Feasible(n, nodes_[i])}
    IN  /\ ~ret.threw
        /\ Increasing(ret.value)
        /\ SeqToSet(ret.value) = labels

\* -------------------------------------------------------- BFDisparityFinder
\* The activation of find_ on the node at position currentNode: the
\* disparities its loop runs over are taken once, on entry.
Frame(nodes, currentNode) ==
    [currentNode |-> currentNode,
     disparities |-> nodeDisparities(nodes, nodes[currentNode]),
     position |-> 1]

InitFinder ==
    /\ \E d \in SmallDimensions, patterns \in SmallPatterns,
          consistency \in Consistencies :
          GraphIs(d, patterns[1], patterns[2], consistency)
    /\ pc = "finder"
    /\ call = NoCall
    /\ ret = NoReturn
    /\ nodes_ = <<>>
    /\ penalty_ = Infinity
    /\ finder = <<>>
    /\ boolean = <<>>

\* BFDisparityFinder::find up to the first activation of find_: the labeling
\* (nodes_, penalty_) and its copy bestLabeling.
Find ==
    /\ pc = "finder"
    /\ call' = [op |-> "find"]
    /\ nodes_' = availableNodes
    /\ penalty_' = Infinity
    /\ finder' = [bestLabeling |-> [nodes_ |-> availableNodes,
                                     penalty_ |-> Infinity],
                  stack |-> <<Frame(availableNodes, 1)>>]
    /\ pc' = "find_"
    /\ UNCHANGED <<graphVars, ret, boolean>>

\* One turn of the loop of find_: setNode, the comparison of the penalties,
\* and the call of find_ for the next node (which returns at once when there
\* is no next node).
FindStep ==
    /\ pc = "find_"
    /\ LET depth == Len(finder.stack)
           frame == finder.stack[depth]
       IN  /\ frame.position <= Len(frame.disparities)
           /\ LET node == [nodes_[frame.currentNode] EXCEPT
                              !.disparity = frame.disparities[frame.position]]
                  nodes == setNode(nodes_, node)
                  labelingSum == labelingPenalty(nodes, Infinity)
                  best == finder.bestLabeling
                  bestSum == labelingPenalty(best.nodes_, best.penalty_)
                  advanced == [finder.stack EXCEPT
                                  ![depth].position = frame.position + 1]
              IN  IF ~setNodeAccepts(nodes_, node)
                  THEN /\ pc' = "invalid_argument"
                       /\ UNCHANGED <<nodes_, penalty_, finder>>
                  ELSE /\ nodes_' = nodes
                       /\ penalty_' = labelingSum
                       /\ IF ~isfinite(labelingSum) \/ ~isfinite(bestSum)
                          THEN /\ pc' = "assertion failed"
                               /\ UNCHANGED finder
                          ELSE /\ pc' = pc
                               /\ finder' =
                                    [bestLabeling |->
                                        IF DLess(labelingSum, bestSum)
                                        THEN [nodes_ |-> nodes,
                                              penalty_ |-> labelingSum]
                                        ELSE [best EXCEPT !.penalty_ = bestSum],
                                     stack |->
                                        IF frame.currentNode = Len(nodes_)
                                        THEN advanced
                                        ELSE Append(advanced,
                                                Frame(nodes, frame.currentNode + 1))]
    /\ UNCHANGED <<graphVars, call, ret, boolean>>

\* The end of the loop of find_: the activation returns bestLabeling, and the
\* outermost one makes find return it.
FindReturn ==
    /\ pc = "find_"
    /\ LET depth == Len(finder.stack)
           frame == finder.stack[depth]
       IN  /\ frame.position > Len(frame.disparities)
           /\ finder' = [finder EXCEPT !.stack = SubSeq(finder.stack, 1, depth - 1)]
           /\ IF depth = 1
              THEN pc' = "found" /\ ret' = Returned(finder.bestLabeling)
              ELSE pc' = pc /\ ret' = ret
    /\ UNCHANGED <<graphVars, call, nodes_, penalty_, boolean>>

NextBF ==
    \/ Find
    \/ FindStep
    \/ FindReturn

SpecBF == InitFinder /\ [][NextBF]_vars

\* ------------------------------------------------- properties of a finder
\* Every complete labeling: a valid node at every pixel.
AllLabelings ==
    {nodes \in [1..Len(availableNodes) ->
                   [row : 0..(rightImage_.rows - 1),
                    column : 0..(rightImage_.columns - 1),
                    disparity : 0..(leftImage_.columns - 1)]] :
        \A i \in 1..Len(availableNodes) :
            /\ nodes[i].row = availableNodes[i].row
            /\ nodes[i].column = availableNodes[i].column
            /\ IsValid(nodes[i])}

IsFeasible(nodes) ==
    \A i, j \in 1..Len(nodes) :
        Distance(nodes[i], nodes[j]) = 1 => Feasible(nodes[i], nodes[j])

FeasibleLabelings == {nodes \in AllLabelings : IsFeasible(nodes)}

TotalPenalty(nodes) == DSum(EdgePenalties(nodes, 1))

\* A feasible labeling than which no feasible labeling is cheaper.
IsMinimal(nodes) ==
    /\ IsFeasible(nodes)
    /\ \A other \in FeasibleLabelings :
          ~DLess(TotalPenalty(other), TotalPenalty(nodes))

\* C4: BFDisparityFinder::find returns a labeling in which every adjacent
\* pair has an edge and whose total penalty is the least over all complete
\* labelings in which every adjacent pair has an edge.
C4_BruteForceMinimum ==
    call.op = "find" =>
        /\ pc \notin {"invalid_argument", "assertion failed"}
        /\ pc = "found" => IsMinimal(ret.value.nodes_)

\* ----------------- the graph interface of BooleanGraph and the diffusion
\* DisparityNode::index, the position of the pixel in availableNodes.
nodeIndex(node) == node.row * columns + node.column

\* operator< of DisparityNode: by row, then by column.
NodeLess(a, b) == a.row < b.row \/ (a.row = b.row /\ a.column < b.column)

WithDisparity(node, k) == [node EXCEPT !.disparity = k]

minDisparity(node) == 0

maxDisparity(node) == leftImage_.columns - node.column

\* DisparityGraph::nodeDisparities: minDisparity, ..., maxDisparity - 1.
graphNodeDisparities(node) == Range(minDisparity(node), maxDisparity(node))

\* The least disparity of the neighbour that has an edge to the node.
minNeighborDisparity(node, neighbor) ==
    IF node.row = neighbor.row /\ node.column + 1 = neighbor.column
          /\ node.disparity > 0
    THEN node.disparity - 1
    ELSE 0

\* One more than the greatest disparity of the neighbour that has an edge
\* to the node.
maxNeighborDisparity(node, neighbor) ==
    IF node.row = neighbor.row /\ node.column = neighbor.column + 1
    THEN node.disparity + 2
    ELSE leftImage_.columns - neighbor.column

\* The neighbour at every disparity of the loop
\* for (k = minNeighborDisparity; k < maxNeighborDisparity; ++k).
NeighborRange(node, neighbor) ==
    {WithDisparity(neighbor, k) :
        k \in minNeighborDisparity(node, neighbor)
              ..(maxNeighborDisparity(node, neighbor) - 1)}

\* Every pixel at every disparity of the loop
\* for (k = minDisparity; k < maxDisparity; ++k).
AllNodes ==
    UNION {{WithDisparity(availableNodes[i], k) :
               k \in minDisparity(availableNodes[i])
                     ..(maxDisparity(availableNodes[i]) - 1)} :
           i \in 1..Len(availableNodes)}

\* ------------------------------------------------------------ BooleanGraph
\* nodesAvailability_ is held as the set of <<index, disparity>> whose bit
\* is true, edgesAvailability_ as the set of
\* <<index, disparity, neighborIndex, neighborDisparity>> whose bit is true.
neighborIndex(node, neighbor) ==
    2 * (neighbor.row - node.row) + neighbor.column - node.column - 1

\* The bit of edgesAvailability_ that edgeAvailable_ and removeEdge reach.
edgeKey(node, neighbor) ==
    IF NodeLess(node, neighbor)
    THEN <<nodeIndex(node), node.disparity,
           neighborIndex(node, neighbor), neighbor.disparity>>
    ELSE <<nodeIndex(neighbor), neighbor.disparity,
           neighborIndex(neighbor, node), node.disparity>>

edgeAvailable_(bg, node, neighbor) ==
    edgeKey(node, neighbor) \in bg.edgesAvailability_

removeEdge(bg, node, neighbor) ==
    [bg EXCEPT !.edgesAvailability_ = @ \ {edgeKey(node, neighbor)}]

nodeAvailable(bg, node) ==
    <<nodeIndex(node), node.disparity>> \in bg.nodesAvailability_

\* The bits removeNode_ clears through removeEdge.
EdgesOfNode(node) ==
    UNION {{edgeKey(node, other) : other \in NeighborRange(node, neighbor)} :
           neighbor \in SeqToSet(nodeNeighbors(node, FALSE))}

\* The edge bits of the node are cleared and its own bit is left set.
removeNodeEdgesOnly_(bg, node) ==
    [bg EXCEPT !.edgesAvailability_ = @ \ EdgesOfNode(node)]

\* The bit of the node is cleared and the bits of its edges are left set.
removeNodeBitOnly_(bg, node) ==
    [bg EXCEPT !.nodesAvailability_ =
                   @ \ {<<nodeIndex(node), node.disparity>>}]

removeNode_(bg, node) ==
    [nodesAvailability_ |->
        bg.nodesAvailability_ \ {<<nodeIndex(node), node.disparity>>},
     edgesAvailability_ |-> bg.edgesAvailability_ \ EdgesOfNode(node)]

MaxElement(seq) ==
    CHOOSE m \in SeqToSet(seq) : \A x \in SeqToSet(seq) : x <= m

\* The sizes initialize_ gives to edgesAvailability_[index][disparity] and
\* to edgesAvailability_[index][disparity][neighborIndex].
slotsSize(node) == nodeNeighborsCount_(node, FALSE)

edgesSize(node, neighbor) ==
    MaxElement(neighborDisparities(node, neighbor)) + 1

\* TRUE when the bit of the edge lies inside the vectors initialize_ made.
edgeAllocated(node, neighbor) ==
    LET first == IF NodeLess(node, neighbor) THEN node ELSE neighbor
        second == IF NodeLess(node, neighbor) THEN neighbor ELSE node
    IN  /\ neighborIndex(first, second) < slotsSize(first)
        /\ second.disparity < edgesSize(first, second)

\* TRUE when the assertion of initialize_ on the size of
\* edgesAvailability_[index][disparity] holds at every node.
initializeAsserts_ ==
    \A node \in AllNodes :
        \A neighbor \in SeqToSet(nodeNeighbors(node, TRUE)) :
            slotsSize(node) > neighborIndex(node, neighbor)

\* BooleanGraph::initialize_: every bit is false.
initialize_ == [nodesAvailability_ |-> {}, edgesAvailability_ |-> {}]

\* The bits BooleanGraph::initialize sets.
DirectedEdges ==
    UNION {UNION {{<<node, other>> : other \in NeighborRange(node, neighbor)} :
                  neighbor \in SeqToSet(nodeNeighbors(node, TRUE))} :
           node \in AllNodes}

initialize(bg) ==
    [nodesAvailability_ |->
        bg.nodesAvailability_
            \cup {<<nodeIndex(node), node.disparity>> : node \in AllNodes},
     edgesAvailability_ |->
        bg.edgesAvailability_
            \cup {edgeKey(e[1], e[2]) : e \in DirectedEdges}]

\* TRUE when removeNode_ reaches a bit outside the vectors.
removeNodeOverflows(node) ==
    \E neighbor \in SeqToSet(nodeNeighbors(node, FALSE)) :
        \E other \in NeighborRange(node, neighbor) :
            ~edgeAllocated(node, other)

\* TRUE when initialize writes a bit outside the vectors.
initializeOverflows == \E e \in DirectedEdges : ~edgeAllocated(e[1], e[2])

\* The inner loop looking only at the neighbours that come after the node.
SupportedForward(bg, node, neighbor) ==
    \/ NodeLess(neighbor, node)
    \/ \E other \in NeighborRange(node, neighbor) :
          edgeAvailable_(bg, node, other)

\* The inner loop of deletionIteration_: TRUE when some edge from the node
\* to the neighbour is available.
Supported(bg, node, neighbor) ==
    \E other \in NeighborRange(node, neighbor) : edgeAvailable_(bg, node, other)

RECURSIVE CheckNeighbors(_, _, _, _)
\* The loop of deletionIteration_ over the neighbours of an available node,
\* from the neighbour at position i on.  st holds the graph and the locals
\* changed and graphExists; overflowed tells that removeNode_ has reached a
\* bit outside the vectors.
CheckNeighbors(st, node, neighborsOfNode, i) ==
    IF i > Len(neighborsOfNode) THEN st
    ELSE CheckNeighbors(
             IF Supported(st.bg, node, neighborsOfNode[i])
             THEN [st EXCEPT !.graphExists = TRUE]
             ELSE [st EXCEPT !.changed = TRUE,
                             !.bg = removeNode_(st.bg, node),
                             !.overflowed = @ \/ removeNodeOverflows(node)],
             node, neighborsOfNode, i + 1)

RECURSIVE CheckDisparities(_, _, _)
\* The loop of deletionIteration_ over the disparities of a pixel, from k on.
CheckDisparities(st, pixel, k) ==
    IF k >= maxDisparity(pixel) THEN st
    ELSE CheckDisparities(
             IF nodeAvailable(st.bg, WithDisparity(pixel, k))
             THEN CheckNeighbors(st, WithDisparity(pixel, k),
                      nodeNeighbors(WithDisparity(pixel, k), FALSE), 1)
             ELSE st,
             pixel, k + 1)

RECURSIVE CheckNodes(_, _)
\* The loop of deletionIteration_ over nodes_, from position i on.
CheckNodes(st, i) ==
    IF i > Len(availableNodes) THEN st
    ELSE CheckNodes(
             CheckDisparities([st EXCEPT !.graphExists = FALSE],
                 availableNodes[i], minDisparity(availableNodes[i])),
             i + 1)

\* The graph after removeNode_ on every node.
RemoveAll(bg) ==
    [nodesAvailability_ |->
        bg.nodesAvailability_
            \ {<<nodeIndex(node), node.disparity>> : node \in AllNodes},
     edgesAvailability_ |->
        bg.edgesAvailability_ \ UNION {EdgesOfNode(node) : node \in AllNodes}]

deletionIteration_(bg, overflowed) ==
    LET st == CheckNodes([bg |-> bg, changed |-> FALSE,
                          graphExists |-> FALSE, overflowed |-> overflowed], 1)
    IN  IF ~st.graphExists
        THEN [bg |-> RemoveAll(st.bg), changed |-> FALSE,
              overflowed |-> st.overflowed
                                \/ \E node \in AllNodes : removeNodeOverflows(node)]
        ELSE [bg |-> st.bg, changed |-> st.changed,
              overflowed |-> st.overflowed]

\* One sweep only, whatever it has changed.
DeletionOnce(bg, overflowed) == deletionIteration_(bg, overflowed)

RECURSIVE DeletionLoop(_, _)
\* while (deletionIteration_());
DeletionLoop(bg, overflowed) ==
    LET turn == deletionIteration_(bg, overflowed)
    IN  IF turn.changed THEN DeletionLoop(turn.bg, turn.overflowed) ELSE turn

\* BooleanGraph::isFinished: the graph it leaves, its result, and whether it
\* has reached a bit outside the vectors.
isFinished(bg) ==
    LET last == DeletionLoop(bg, FALSE)
    IN  [bg |-> last.bg,
         result |-> \E node \in AllNodes : nodeAvailable(last.bg, node),
         overflowed |-> last.overflowed]

\* ------------------------------ DiffusionDisparityFinder::getBestLabeling_
AvailableDisparities(bg, node) ==
    {k \in SeqToSet(graphNodeDisparities(node)) :
        nodeAvailable(bg, WithDisparity(node, k))}

\* Labeling::setNodeForce: the node is written without any check.
setNodeForce(nodes, node) == [nodes EXCEPT ![nodeIterator_(node)] = node]

\* TRUE when the assertion of getBestLabeling_ holds at every pixel.
getBestLabelingAsserts_(bg, nodes) ==
    \A i \in 1..Len(nodes) : AvailableDisparities(bg, nodes[i]) # {}

RECURSIVE getBestLabeling_(_, _, _)
\* The nodes of labeling_ after the loop of getBestLabeling_ from position
\* i on: every pixel takes its first available disparity.
getBestLabeling_(bg, nodes, i) ==
    IF i > Len(nodes) THEN nodes
    ELSE LET available == AvailableDisparities(bg, nodes[i])
         IN  getBestLabeling_(bg,
                 IF available = {} THEN nodes
                 ELSE setNodeForce(nodes,
                          WithDisparity(nodes[i], SortedSeq(available)[1])),
                 i + 1)

\* ------------------------------------------- operations on a BooleanGraph
\* The sizes the Boolean graphs and the diffusion finders are built on.
FewPixels == {d \in SmallDimensions : d[1] * d[2] <= MaxPixels}

\* A graph, and the labeling_ the diffusion finder holds on it.  The Boolean
\* graph reads the sizes of the images only, so one pair of images is taken.
InitBoolean ==
    /\ \E d \in FewPixels :
          GraphIs(d, <<0, 1, 0>>, <<0, 1, 1>>, 1)
    /\ pc = "graph"
    /\ call = NoCall
    /\ ret = NoReturn
    /\ nodes_ = availableNodes
    /\ penalty_ = Infinity
    /\ finder = <<>>
    /\ boolean = <<>>

\* BooleanGraph::BooleanGraph.  Where the assertion of initialize_ does not
\* hold the program is ended by it, or, built without assertions, indexes a
\* vector past its end.
BooleanGraphConstruct ==
    /\ pc = "graph"
    /\ call' = [op |-> "BooleanGraph"]
    /\ IF initializeAsserts_
       THEN boolean' = initialize_ /\ pc' = "boolean graph"
       ELSE boolean' = boolean
            /\ pc' \in {"assertion failed", "undefined behaviour"}
    /\ UNCHANGED <<graphVars, ret, nodes_, penalty_, finder>>

\* BooleanGraph::initialize.  A bit written past the end of its vector is
\* undefined behaviour: the bit is stored in the last word of the vector, or
\* anything else happens.
Initialize ==
    /\ pc \in {"boolean graph", "initialized", "finished"}
    /\ call' = [op |-> "initialize"]
    /\ boolean' = initialize(boolean)
    /\ pc' \in IF initializeOverflows
               THEN {"initialized", "undefined behaviour"}
               ELSE {"initialized"}
    /\ UNCHANGED <<graphVars, ret, nodes_, penalty_, finder>>

\* The edges removed since initialize.
Removed ==
    {e \in DirectedEdges : edgeKey(e[1], e[2]) \notin boolean.edgesAvailability_}

\* BooleanGraph::removeEdge on an available edge, called with the nodes in
\* either order.  Where the bit lies outside its vector the assertions of
\* removeEdge end the program, or, built without them, the bit is cleared in
\* the last word of the vector.
RemoveEdge ==
    /\ pc = "initialized"
    /\ Cardinality(Removed) < MaxRemovals
    /\ \E e \in DirectedEdges \ Removed, swapped \in BOOLEAN :
          LET node == IF swapped THEN e[2] ELSE e[1]
              neighbor == IF swapped THEN e[1] ELSE e[2]
          IN  /\ call' = [op |-> "removeEdge"]
              /\ boolean' = removeEdge(boolean, node, neighbor)
              /\ pc' \in IF edgeAllocated(node, neighbor)
                         THEN {pc} ELSE {pc, "assertion failed"}
    /\ UNCHANGED <<graphVars, ret, nodes_, penalty_, finder>>

\* BooleanGraph::isFinished.
IsFinished ==
    /\ pc = "initialized"
    /\ call' = [op |-> "isFinished"]
    /\ LET finished == isFinished(boolean)
       IN  /\ boolean' = finished.bg
           /\ ret' = Returned(finished.result)
           /\ pc' \in IF finished.overflowed
                      THEN {"finished", "assertion failed"}
                      ELSE {"finished"}
    /\ UNCHANGED <<graphVars, nodes_, penalty_, finder>>

\* DiffusionDisparityFinder::getBestLabeling_ once isFinished has returned
\* true; the labeling it returns is then in the hands of the caller.
GetBestLabeling ==
    /\ pc = "finished"
    /\ ret.value
    /\ call' = [op |-> "getBestLabeling_"]
    /\ IF getBestLabelingAsserts_(boolean, nodes_)
       THEN /\ nodes_' = getBestLabeling_(boolean, nodes_, 1)
            /\ pc' = "labeling"
       ELSE /\ nodes_' = nodes_
            /\ pc' = "assertion failed"
    /\ penalty_' = Infinity
    /\ UNCHANGED <<graphVars, ret, finder, boolean>>

NextBoolean ==
    \/ BooleanGraphConstruct
    \/ Initialize
    \/ RemoveEdge
    \/ IsFinished
    \/ GetBestLabeling
    \/ Penalty

SpecBoolean == InitBoolean /\ [][NextBoolean]_vars

\* ------------------------------------------- properties of a BooleanGraph
\* C5: once isFinished has returned true after initialize and any removeEdge
\* calls, giving every pixel its first available disparity succeeds at every
\* pixel and yields a labeling in which every pair of adjacent pixels has an
\* edge, so that the penalty of the returned labeling is finite.
C5_FirstAvailableIsFeasible ==
    call.op \in {"getBestLabeling_", "penalty"} =>
        /\ pc = "labeling"
        /\ IsFeasible(nodes_)
        /\ isfinite(TotalPenalty(nodes_))

C5_Witness ==
    /\ call.op = "penalty"
    /\ pc = "labeling"
    /\ isfinite(ret.value)
    /\ Cardinality(Removed) >= MaxRemovals
    /\ \E i \in 1..Len(nodes_) : nodes_[i].disparity > 0

\* ------------------------------------------------ DiffusionDisparityFinder
\* passedPenalties_ is held as a function of
\* <<index, disparity, neighborIndex>>.
MAX_NEIGHBORS_COUNT == 4

PenaltyKeys ==
    {<<nodeIndex(node), node.disparity, slot>> :
        node \in AllNodes, slot \in 0..(MAX_NEIGHBORS_COUNT - 1)}

\* passedPenalties_ after initialize_, and after resetPenalties_.
resetPenalties_ == [key \in PenaltyKeys |-> Double(0, 1)]

\* The neighborIndex of passedPenalty_ and changePassedPenalty_: the place of
\* the neighbour among the penalties of the node.
passedNeighborIndex(node, neighbor) ==
    IF neighbor.row <= node.row /\ neighbor.column <= node.column
    THEN 2 * (node.row - neighbor.row) + node.column - neighbor.column - 1
    ELSE 2 * (neighbor.row - node.row) + neighbor.column - node.column + 1

\* The nodeNeighborIndex of passedPenalty_: the place of the node among the
\* penalties of the neighbour.
nodeNeighborIndex(node, neighbor) ==
    IF neighbor.row <= node.row /\ neighbor.column <= node.column
    THEN 2 * (node.row - neighbor.row) + node.column - neighbor.column + 1
    ELSE 2 * (neighbor.row - node.row) + neighbor.column - node.column - 1

passedPenalty_(pp, node, neighbor) ==
    DAdd(pp[<<nodeIndex(node), node.disparity,
              passedNeighborIndex(node, neighbor)>>],
         pp[<<nodeIndex(neighbor), neighbor.disparity,
              nodeNeighborIndex(node, neighbor)>>])

\* The change written over the passed penalty instead of added to it.
changePassedPenaltyAssign_(pp, node, neighbor, change) ==
    [pp EXCEPT ![<<nodeIndex(node), node.disparity,
                   passedNeighborIndex(node, neighbor)>>] = change]

changePassedPenalty_(pp, node, neighbor, change) ==
    [pp EXCEPT ![<<nodeIndex(node), node.disparity,
                   passedNeighborIndex(node, neighbor)>>] = DAdd(@, change)]

\* passedPenalty_(node, neighbor) + graph_.penalty(node, neighbor).
EdgePenalty(pp, node, neighbor) ==
    DAdd(passedPenalty_(pp, node, neighbor), penalty(node, neighbor))

RECURSIVE minEdgePenaltyFrom(_, _, _, _, _)
\* The loop of minEdgePenalty_ from disparity k on.
minEdgePenaltyFrom(pp, node, neighbor, k, minPenalty) ==
    IF k >= maxNeighborDisparity(node, neighbor) THEN minPenalty
    ELSE minEdgePenaltyFrom(pp, node, neighbor, k + 1,
             IF DLess(EdgePenalty(pp, node, WithDisparity(neighbor, k)),
                      minPenalty)
             THEN EdgePenalty(pp, node, WithDisparity(neighbor, k))
             ELSE minPenalty)

minEdgePenalty_(pp, node, neighbor) ==
    minEdgePenaltyFrom(pp, node, neighbor,
        minNeighborDisparity(node, neighbor), Infinity)

\* TRUE when the assertions of minEdgePenalty_ hold.
minEdgePenaltyAsserts_(pp, node, neighbor) ==
    /\ \A other \in NeighborRange(node, neighbor) :
          isfinite(EdgePenalty(pp, node, other))
    /\ isfinite(minEdgePenalty_(pp, node, neighbor))

RECURSIVE TakeFromEdges(_, _, _, _)
\* The first loop of processNode_ from the neighbour at position i on.  st
\* holds passedPenalties_ (pp), the local nodePenalty, and whether every
\* assertion has held so far (asserts).
TakeFromEdges(st, node, neighborsOfNode, i) ==
    IF i > Len(neighborsOfNode) THEN st
    ELSE CHOOSE result \in
             {TakeFromEdges(
                  [pp |-> changePassedPenalty_(st.pp, node, neighborsOfNode[i],
                              DNeg(accumulatedPenalty)),
                   nodePenalty |->
                       DAdd(st.nodePenalty,
                            DDiv(accumulatedPenalty, Len(neighborsOfNode))),
                   asserts |->
                       st.asserts /\ minEdgePenaltyAsserts_(
                                         st.pp, node, neighborsOfNode[i])],
                  node, neighborsOfNode, i + 1) :
              accumulatedPenalty \in
                  {minEdgePenalty_(st.pp, node, neighborsOfNode[i])}} : TRUE

\* The second loop of processNode_ stopped after its first neighbour.
GiveToFirstEdge(pp, node, neighborsOfNode, i, change) ==
    IF i > Len(neighborsOfNode) THEN pp
    ELSE changePassedPenalty_(pp, node, neighborsOfNode[i], change)

RECURSIVE GiveToEdges(_, _, _, _, _)
\* The second loop of processNode_ from the neighbour at position i on.
GiveToEdges(pp, node, neighborsOfNode, i, change) ==
    IF i > Len(neighborsOfNode) THEN pp
    ELSE GiveToEdges(
             changePassedPenalty_(pp, node, neighborsOfNode[i], change),
             node, neighborsOfNode, i + 1, change)

processNode_(st, node) ==
    CHOOSE result \in
        {[pp |-> GiveToEdges(taken.pp, node, nodeNeighbors(node, FALSE), 1,
                             taken.nodePenalty),
          asserts |-> taken.asserts] :
         taken \in {TakeFromEdges(
                        [pp |-> st.pp, nodePenalty |-> Double(0, 1),
                         asserts |-> st.asserts],
                        node, nodeNeighbors(node, FALSE), 1)}} : TRUE

\* The loop over the disparities of a pixel left after its first turn.
ProcessFirstDisparity(st, pixel, i) ==
    IF i > Len(graphNodeDisparities(pixel)) THEN st
    ELSE processNode_(st, WithDisparity(pixel, graphNodeDisparities(pixel)[i]))

RECURSIVE ProcessDisparities(_, _, _)
\* The loop of iterationThread_ over the disparities of a pixel, from
\* position i of nodeDisparities on.
ProcessDisparities(st, pixel, i) ==
    IF i > Len(graphNodeDisparities(pixel)) THEN st
    ELSE CHOOSE result \in
             {ProcessDisparities(next, pixel, i + 1) :
              next \in {processNode_(st,
                            WithDisparity(pixel,
                                graphNodeDisparities(pixel)[i]))}} : TRUE

\* The colour taken from the row alone.
ParityOfRow(node) == node.row % 2

\* (node.row ^ node.column) & 1
Parity(node) == (node.row + node.column) % 2

RECURSIVE iterationThread_(_, _, _, _)
\* iterationThread_(1, 0, first) over the nodes of labeling_ from position i
\* on: the pixels of one colour of the chessboard.
iterationThread_(st, nodes, first, i) ==
    IF i > Len(nodes) THEN st
    ELSE CHOOSE result \in
             {iterationThread_(next, nodes, first, i + 1) :
              next \in {IF (first /\ Parity(nodes[i]) = 1)
                           \/ (~first /\ Parity(nodes[i]) = 0)
                        THEN st
                        ELSE ProcessDisparities(st, nodes[i], 1)}} : TRUE

\* iteration_: the one thread of the first colour is joined before the one
\* thread of the second colour is started.
iteration_(pp, nodes) ==
    CHOOSE result \in
        {iterationThread_(firstColour, nodes, FALSE, 1) :
         firstColour \in
             {iterationThread_([pp |-> pp, asserts |-> TRUE],
                               nodes, TRUE, 1)}} : TRUE

\* double threshold = 1 / (2 * columns * rows * 4): the quotient is taken on
\* size_t values and then converted.
threshold == Double(1 \div (2 * columns * rows * 4), 1)

RECURSIVE LeastEdgePenaltyFrom(_, _, _, _, _)
\* The first loop of initialiseAvailability_ over the disparities of a pixel,
\* from position i of nodeDisparities on.
LeastEdgePenaltyFrom(pp, pixel, neighbor, i, minPenalty) ==
    IF i > Len(graphNodeDisparities(pixel)) THEN minPenalty
    ELSE LET currentMinPenalty ==
                 minEdgePenalty_(pp,
                     WithDisparity(pixel, graphNodeDisparities(pixel)[i]),
                     neighbor)
         IN  LeastEdgePenaltyFrom(pp, pixel, neighbor, i + 1,
                 IF DLess(currentMinPenalty, minPenalty)
                 THEN currentMinPenalty ELSE minPenalty)

\* The edges initialiseAvailability_ removes: those whose penalty is greater
\* than the least penalty between the two pixels plus the threshold.
EdgesToRemove(pp) ==
    {e \in DirectedEdges :
        DLess(DAdd(LeastEdgePenaltyFrom(pp, e[1], WithDisparity(e[2], 0), 1,
                                        Infinity),
                   threshold),
              EdgePenalty(pp, e[1], e[2]))}

\* initialiseAvailability_: the Boolean graph it leaves, whether removeEdge
\* has reached a bit outside the vectors, and whether every assertion of
\* minEdgePenalty_ has held.
initialiseAvailability_(pp, bg) ==
    [bg |-> [initialize(bg) EXCEPT
                !.edgesAvailability_ =
                    @ \ {edgeKey(e[1], e[2]) : e \in EdgesToRemove(pp)}],
     overflowed |-> \E e \in EdgesToRemove(pp) : ~edgeAllocated(e[1], e[2]),
     asserts |->
        \A node \in AllNodes :
            \A neighbor \in SeqToSet(nodeNeighbors(node, TRUE)) :
                minEdgePenaltyAsserts_(pp, node, neighbor)]

isFinished_(pp, bg) ==
    LET availability == initialiseAvailability_(pp, bg)
        last == DeletionLoop(availability.bg, availability.overflowed)
    IN  [bg |-> last.bg,
         result |-> \E node \in AllNodes : nodeAvailable(last.bg, node),
         overflowed |-> last.overflowed,
         asserts |-> availability.asserts]

RECURSIVE Dyadic(_)
Dyadic(d) == d = 1 \/ (d > 1 /\ d % 2 = 0 /\ Dyadic(d \div 2))

\* The doubles the fractions of the model stand for without rounding.
Exact(x) == isfinite(x) /\ Dyadic(x[2]) /\ x[2] <= MaxDenominator

\* ------------------------------ operations on a DiffusionDisparityFinder
\* A graph on which no finder has been built yet.
InitDiffusion ==
    /\ \E d \in FewPixels, patterns \in SmallPatterns,
          consistency \in Consistencies :
          GraphIs(d, patterns[1], patterns[2], consistency)
    /\ pc = "finder"
    /\ call = NoCall
    /\ ret = NoReturn
    /\ nodes_ = <<>>
    /\ penalty_ = Infinity
    /\ finder = <<>>
    /\ boolean = <<>>

\* DiffusionDisparityFinder::DiffusionDisparityFinder on the graph, new or
\* after BFDisparityFinder::find has returned on it: labeling_, booleanGraph_
\* (as in BooleanGraphConstruct) and initialize_.
DiffusionConstruct ==
    /\ pc \in {"finder", "found"}
    /\ call' = [op |-> "DiffusionDisparityFinder"]
    /\ nodes_' = availableNodes
    /\ penalty_' = Infinity
    /\ IF initializeAsserts_
       THEN /\ boolean' = initialize_
            /\ finder' = [passedPenalties_ |-> resetPenalties_, i |-> 0]
            /\ pc' = "diffusion finder"
       ELSE /\ UNCHANGED <<boolean, finder>>
            /\ pc' \in {"assertion failed", "undefined behaviour"}
    /\ UNCHANGED <<graphVars, ret>>

\* DiffusionDisparityFinder::find up to the first test of its loop: the
\* penalties are reset and the counter i of find starts at 0.
DiffusionFind ==
    /\ pc = "diffusion finder"
    /\ call' = [op |-> "diffusion find"]
    /\ finder' = [passedPenalties_ |-> resetPenalties_, i |-> 0]
    /\ pc' = "isFinished_"
    /\ UNCHANGED <<graphVars, ret, nodes_, penalty_, boolean>>

\* The test of the loop of find: isFinished_(threshold).  As in Initialize
\* and RemoveEdge, a bit outside its vector is undefined behaviour in
\* initialize and ends the program in removeEdge when assertions are on.
DiffusionIsFinished ==
    /\ pc = "isFinished_"
    /\ LET test == isFinished_(finder.passedPenalties_, boolean)
       IN  /\ boolean' = test.bg
           /\ pc' \in (IF test.result THEN {"getBestLabeling_"}
                                      ELSE {"iteration_"})
                      \cup (IF test.asserts /\ ~test.overflowed
                            THEN {} ELSE {"assertion failed"})
                      \cup (IF initializeOverflows
                            THEN {"undefined behaviour"} ELSE {})
    /\ UNCHANGED <<graphVars, call, ret, nodes_, penalty_, finder>>

\* The body of the loop of find: ++i and iteration_().  The loop has no
\* condition on i, which is kept to MaxIterations rounds here.  A penalty
\* that a double does not hold without rounding ends the run of the model.
DiffusionIteration ==
    /\ pc = "iteration_"
    /\ finder.i < MaxIterations
    /\ LET after == iteration_(finder.passedPenalties_, nodes_)
       IN  IF \A key \in PenaltyKeys : Exact(after.pp[key])
           THEN /\ finder' = [passedPenalties_ |-> after.pp,
                              i |-> finder.i + 1]
                /\ pc' \in {"isFinished_"}
                           \cup (IF after.asserts THEN {}
                                 ELSE {"assertion failed"})
           ELSE /\ finder' = finder
                /\ pc' = "inexact"
    /\ UNCHANGED <<graphVars, call, ret, nodes_, penalty_, boolean>>

\* The end of find: getBestLabeling_() and the return of labeling_.
DiffusionGetBestLabeling ==
    /\ pc = "getBestLabeling_"
    /\ IF getBestLabelingAsserts_(boolean, nodes_)
       THEN /\ nodes_' = getBestLabeling_(boolean, nodes_, 1)
            /\ pc' = "diffusion found"
       ELSE /\ nodes_' = nodes_
            /\ pc' = "assertion failed"
    /\ penalty_' = Infinity
    /\ UNCHANGED <<graphVars, call, ret, finder, boolean>>

NextDiffusion ==
    \/ Find
    \/ FindStep
    \/ FindReturn
    \/ DiffusionConstruct
    \/ DiffusionFind
    \/ DiffusionIsFinished
    \/ DiffusionIteration
    \/ DiffusionGetBestLabeling

SpecDiffusion == InitDiffusion /\ [][NextDiffusion]_vars

\* --------------------------------------- properties of the diffusion finder
\* C6: DiffusionDisparityFinder::find runs its loop at most a fixed number
\* of times and then returns: its counter i stays below MaxIterations.
C6_IterationsAreCapped ==
    "i" \in DOMAIN finder => finder.i < MaxIterations

\* TRUE when BFDisparityFinder::find has returned on the graph.
BruteForceReturned == "value" \in DOMAIN ret

\* C7: the labeling DiffusionDisparityFinder::find returns has the total
\* penalty of the labeling BFDisparityFinder::find has returned on the same
\* graph.
C7_DiffusionEqualsBruteForce ==
    (pc = "diffusion found" /\ BruteForceReturned) =>
        TotalPenalty(nodes_) = TotalPenalty(ret.value.nodes_)

\* The labeling DiffusionDisparityFinder::find returns is a feasible one of
\* the least total penalty.
DiffusionIsMinimal == pc = "diffusion found" => IsMinimal(nodes_)

\* -------------------------------------------- further properties of a Labeling
\* The messages of the errors of checkNode.
ArgumentErrors ==
    {"Row should not be greater than the last one.",
     "Column should not be greater than the last one.",
     "Disparity should not lead to image overflow."}

\* C11: setNode(t) throws the error of checkNode when t is not a valid node
\* and the error "Provided disparity is not available." when t is valid and
\* t.disparity is not in nodeDisparities(t); a call that throws leaves every
\* node of the labeling and the cached penalty as they were, and a call with
\* a valid node whose disparity is in nodeDisparities(t) returns and stores
\* the label, also when the call before it has thrown.
C11_SetNodeErrors ==
    [][call'.op = "setNode" =>
        \A t \in {call'.nodeA} :
        \A admissible \in
            {IsValid(t) /\ t.disparity \in SeqToSet(nodeDisparities(nodes_, t))} :
            /\ ~IsValid(t) => ret'.threw /\ ret'.what \in ArgumentErrors
            /\ (IsValid(t) /\ ~admissible) =>
                  /\ ret'.threw
                  /\ ret'.what = "Provided disparity is not available."
            /\ ret'.threw => nodes_' = nodes_ /\ penalty_' = penalty_
            /\ admissible =>
                  /\ ~ret'.threw
                  /\ nodes_'[nodeIterator_(t)].disparity = t.disparity]_vars

\* A setNode that has thrown for a valid node, on a labeling that holds a
\* label other than 0 and a cached penalty.
C11_Witness ==
    /\ Asked("setNode")
    /\ ret.threw
    /\ ret.what = "Provided disparity is not available."
    /\ isfinite(penalty_)
    /\ \E i \in 1..Len(nodes_) : nodes_[i].disparity > 0

\* ------------------------------------ a Labeling and a copy of it, assigned
\* A labeling and bestLabeling, its copy, as BFDisparityFinder::find makes
\* them, on one pair of images of every size.
InitAssignment ==
    /\ \E d \in FewPixels : GraphIs(d, <<0, 1, 0>>, <<0, 1, 1>>, 1)
    /\ pc = "labeling"
    /\ call = NoCall
    /\ ret = NoReturn
    /\ nodes_ = availableNodes
    /\ penalty_ = Infinity
    /\ finder = [bestLabeling |-> [nodes_ |-> availableNodes,
                                    penalty_ |-> Infinity]]
    /\ boolean = <<>>

\* Labeling::setNodeForce on a node of the graph: the node is written and
\* the cached penalty is dropped.
SetNodeForce ==
    /\ pc = "labeling"
    /\ \E node \in ValidNodes :
          /\ nodes_' = setNodeForce(nodes_, node)
          /\ penalty_' = Infinity
    /\ call' = [op |-> "setNodeForce"]
    /\ ret' = Returned(TRUE)
    /\ UNCHANGED <<graphVars, pc, finder, boolean>>

\* bestLabeling = labeling (Labeling::operator= on the same graph).
AssignBest ==
    /\ pc = "labeling"
    /\ finder' = [bestLabeling |-> [nodes_ |-> nodes_, penalty_ |-> penalty_]]
    /\ call' = [op |-> "operator="]
    /\ ret' = Returned(TRUE)
    /\ UNCHANGED <<graphVars, pc, nodes_, penalty_, boolean>>

\* labeling = bestLabeling (Labeling::operator= on the same graph).
Assign ==
    /\ pc = "labeling"
    /\ nodes_' = finder.bestLabeling.nodes_
    /\ penalty_' = finder.bestLabeling.penalty_
    /\ call' = [op |-> "operator="]
    /\ ret' = Returned(TRUE)
    /\ UNCHANGED <<graphVars, pc, finder, boolean>>

NextAssignment ==
    \/ SetNode
    \/ SetNodeForce
    \/ Penalty
    \/ AssignBest
    \/ Assign

SpecAssignment == InitAssignment /\ [][NextAssignment]_vars

\* The pairs of positions of adjacent pixels, every pair once.
AdjacentPairs ==
    {e \in AdjacentPositions : e[1] < e[2]}

RECURSIVE PairSum(_)
\* The sum of the penalties of the edges between the nodes at the pairs.
PairSum(pairs) ==
    IF pairs = {} THEN Double(0, 1)
    ELSE LET e == CHOOSE x \in pairs : TRUE
         IN  DAdd(penalty(nodes_[e[1]], nodes_[e[2]]), PairSum(pairs \ {e}))

\* C12: after any setNode, setNodeForce, operator= and penalty calls, what
\* penalty() returns is the sum of the penalties of the edges between the
\* current nodes of every pair of adjacent pixels, every pair taken once.
C12_PenaltyIsTheSum ==
    (Asked("penalty") /\ pc = "labeling") =>
        /\ ~ret.threw
        /\ ret.value = PairSum(AdjacentPairs)
        /\ penalty_ = ret.value

\* penalty() has returned a sum other than the one the copy has cached, on
\* nodes other than those of the copy.
C12_Witness ==
    /\ Asked("penalty")
    /\ pc = "labeling"
    /\ isfinite(finder.bestLabeling.penalty_)
    /\ ret.value # finder.bestLabeling.penalty_
    /\ nodes_ # finder.bestLabeling.nodes_
    /\ \E i \in 1..Len(nodes_) : nodes_[i].disparity > 0

\* ------------------------------------- further properties of the graph queries
\* C13: for valid nodes A and B at distinct pixels, edgeExists(A, B) is
\* edgeExists(B, A) and penalty(A, B) is penalty(B, A), also when the
\* disparity of A is the smaller one and the unsigned difference wraps.
C13_Symmetry ==
    (call.op \in {"edgeExists", "penalty"}
        /\ IsValid(call.nodeA) /\ IsValid(call.nodeB)
        /\ Distance(call.nodeA, call.nodeB) > 0) =>
    /\ Asked("edgeExists") =>
          /\ ~ret.threw
          /\ ret.value = edgeExists(call.nodeB, call.nodeA)
    /\ Asked("penalty") =>
          /\ ~ret.threw
          /\ ret.value = penalty(call.nodeB, call.nodeA)

\* A finite penalty under a consistency term, asked with the smaller
\* disparity first: the difference of the disparities has wrapped.
C13_Witness ==
    /\ Asked("penalty")
    /\ ~ret.threw
    /\ isfinite(ret.value)
    /\ consistency_ > 0
    /\ call.nodeA.disparity + 2 = call.nodeB.disparity
    /\ ret.value = penalty(call.nodeB, call.nodeA)

\* TRUE for a pixel inside the right image.
InGrid(p) ==
    /\ p.row \in 0..(rightImage_.rows - 1)
    /\ p.column \in 0..(rightImage_.columns - 1)

\* The pixel of a node: the node at disparity 0.
PixelOf(n) == [n EXCEPT !.disparity = 0]

\* C15: for a valid node t, nodeNeighbors(t, true) is the in-grid nodes
\* (t.row, t.column + 1) and (t.row + 1, t.column) in that order, and
\* nodeNeighbors(t, false) is those followed by the in-grid
\* (t.row, t.column - 1) and (t.row - 1, t.column); a pixel is among the
\* neighbours of t exactly when t is among its neighbours, and of two
\* adjacent pixels exactly one lists the other under directed = true.
C15_NodeNeighbors ==
    (Asked("nodeNeighbors") /\ IsValid(call.nodeA)) =>
    LET t == call.nodeA
        forward == <<[row |-> t.row, column |-> t.column + 1, disparity |-> 0],
                     [row |-> t.row + 1, column |-> t.column, disparity |-> 0]>>
        backward == <<[row |-> t.row, column |-> t.column - 1, disparity |-> 0],
                      [row |-> t.row - 1, column |-> t.column, disparity |-> 0]>>
    IN  /\ ~ret.threw
        /\ call.directed => ret.value = SelectSeq(forward, InGrid)
        /\ ~call.directed => ret.value = SelectSeq(forward \o backward, InGrid)
        /\ \A b \in Pixels :
              /\ ~call.directed =>
                    (b \in SeqToSet(ret.value)
                        <=> PixelOf(t) \in SeqToSet(nodeNeighbors(b, FALSE)))
              /\ (call.directed /\ Distance(t, b) = 1) =>
                    (b \in SeqToSet(ret.value)
                        <=> PixelOf(t) \notin SeqToSet(nodeNeighbors(b, TRUE)))

\* The four neighbours of an inner node, asked for at a disparity other
\* than 0.
C15_Witness ==
    /\ Asked("nodeNeighbors")
    /\ ~ret.threw
    /\ ~call.directed
    /\ call.nodeA.disparity > 0
    /\ Len(ret.value) = 4

\* C17: a setNode(t) that returns makes the disparity of the pixel of t equal
\* to t.disparity and leaves every other node, and the row and column of the
\* node of the pixel, as they were; a setNode with the node the pixel held
\* before is then accepted and brings the labeling back to what it was.
C17_SetNodeFrame ==
    [][(call'.op = "setNode" /\ ~ret'.threw) =>
        \A t \in {call'.nodeA} : \A previous \in {nodes_[nodeIterator_(t)]} :
            /\ disparity(nodes_', PixelOf(t)) = t.disparity
            /\ Len(nodes_') = Len(nodes_)
            /\ \A i \in 1..Len(nodes_) :
                  i # nodeIterator_(t) => nodes_'[i] = nodes_[i]
            /\ nodes_'[nodeIterator_(t)].row = previous.row
            /\ nodes_'[nodeIterator_(t)].column = previous.column
            /\ setNodeAccepts(nodes_', previous)
            /\ setNode(nodes_', previous) = nodes_]_vars

\* TRUE when every node of the labeling has disparity 0.
AllZero == \A i \in 1..Len(nodes_) : nodes_[i].disparity = 0

\* C16: a new Labeling holds rows * columns nodes, the node of pixel (r, c)
\* at position r * columns + c, all at disparity 0; every pair of adjacent
\* pixels has an edge, and penalty() on it returns a finite value, also
\* when the left image is wider than the right one.
C16_NewLabeling ==
    /\ call = NoCall =>
          /\ Len(nodes_) = rightImage_.rows * rightImage_.columns
          /\ \A r \in 0..(rightImage_.rows - 1), c \in 0..(rightImage_.columns - 1) :
                nodes_[r * rightImage_.columns + c + 1] =
                    [row |-> r, column |-> c, disparity |-> 0]
          /\ \A i \in 1..Len(nodes_) : IsValid(nodes_[i])
          /\ IsFeasible(nodes_)
          /\ isfinite(PairSum(AdjacentPairs))
    /\ (Asked("penalty") /\ AllZero) =>
          /\ pc = "labeling"
          /\ ~ret.threw
          /\ isfinite(ret.value)

\* penalty() has returned a sum other than 0 on the labeling of all zeros
\* of a graph of two rows whose left image is the wider one.
C16_Witness ==
    /\ Asked("penalty")
    /\ AllZero
    /\ pc = "labeling"
    /\ leftImage_.columns > rightImage_.columns
    /\ rightImage_.rows > 1
    /\ rightImage_.columns > 1
    /\ isfinite(ret.value)
    /\ ret.value # Double(0, 1)

\* ------------------------------------------ the finders on identical images
\* C14: when the two images are the same, the labeling of all zeros has
\* total penalty 0 and is a feasible labeling of the least penalty, and
\* BFDisparityFinder::find and DiffusionDisparityFinder::find both run to
\* their end and return the labeling of all zeros.
C14_IdenticalImages ==
    leftImage_ = rightImage_ =>
        /\ TotalPenalty(availableNodes) = Double(0, 1)
        /\ IsMinimal(availableNodes)
        /\ call.op = "find" =>
              /\ pc \notin {"invalid_argument", "assertion failed"}
              /\ pc = "found" => ret.value.nodes_ = availableNodes
        /\ call.op \in {"DiffusionDisparityFinder", "diffusion find"} =>
              /\ pc \notin {"assertion failed", "undefined behaviour"}
              /\ pc = "diffusion found" => nodes_ = availableNodes
              /\ pc = "iteration_" => finder.i < MaxIterations


\* ------------------------------------------- the construction of a graph
\* The sizes of the images a graph is asked to be built from, empty images
\* and images of different heights included.
ImageRows == 0..MaxSmallRows

ImageColumns == 0..MaxColumns

\* A consistency term below zero, zero and above zero.
AnyConsistencies == {-1, 0, 1}

\* The constructor as an earlier revision had it: only the rows are compared.
DisparityGraphRowsOnly(leftImage, rightImage, consistency) ==
    IF leftImage.rows # rightImage.rows
    THEN Thrown("Images should have the same number of rows.")
    ELSE NoReturn

\* DisparityGraph::DisparityGraph: what the body of the constructor does
\* after the members are initialised from the arguments.
DisparityGraph(leftImage, rightImage, consistency) ==
    IF rightImage.rows = 0 \/ rightImage.columns = 0
    THEN Thrown("Images should contain at least one pixel.")
    ELSE IF leftImage.rows # rightImage.rows
    THEN Thrown("Images should have the same number of rows.")
    ELSE IF leftImage.columns < rightImage.columns
    THEN Thrown("Left image should have at least as much columns as the right one.")
    ELSE IF consistency < 0
    THEN Thrown("Consistency term cannot be lower than 0.")
    ELSE NoReturn

\* Two images of any sizes and a consistency term, not yet a graph.
InitConstruct ==
    /\ \E leftRows \in ImageRows, leftColumns \in ImageColumns,
          rightRows \in ImageRows, rightColumns \in ImageColumns,
          pattern \in Patterns, consistency \in AnyConsistencies :
          /\ leftImage_ = Matrix(leftRows, leftColumns, pattern)
          /\ rightImage_ = Matrix(rightRows, rightColumns, <<0, 0, 0>>)
          /\ consistency_ = consistency
    /\ pc = "images"
    /\ call = NoCall
    /\ ret = NoReturn
    /\ nodes_ = <<>>
    /\ penalty_ = Infinity
    /\ finder = <<>>
    /\ boolean = <<>>

\* DisparityGraph<Color> graph{leftImage, rightImage, consistency};
Construct ==
    /\ pc = "images"
    /\ call' = [op |-> "DisparityGraph"]
    /\ ret' = DisparityGraph(leftImage_, rightImage_, consistency_)
    /\ pc' = IF ret'.threw THEN "invalid_argument" ELSE "constructed"
    /\ UNCHANGED <<graphVars, nodes_, penalty_, finder, boolean>>

\* The first query made on a graph that was constructed.
ConstructedAvailableNodes ==
    /\ pc = "constructed"
    /\ call.op = "DisparityGraph"
    /\ call' = [op |-> "availableNodes"]
    /\ ret' = Returned(availableNodes)
    /\ pc' = "returned"
    /\ UNCHANGED <<graphVars, nodes_, penalty_, finder, boolean>>

NextConstruct ==
    \/ Construct
    \/ ConstructedAvailableNodes

SpecConstruct == InitConstruct /\ [][NextConstruct]_vars

\* The messages of the errors the constructor reports.
ConstructionErrors ==
    {"Images should contain at least one pixel.",
     "Images should have the same number of rows.",
     "Left image should have at least as much columns as the right one.",
     "Consistency term cannot be lower than 0."}

MaxWrap == 3

\* a + b on size_t words: limb sums with the last carry dropped.
SizeAdd(x, y) == Carry([i \in 1..Limbs |-> x[i] + y[i]], 1, 0)

RECURSIVE SizeLessFrom(_, _, _)
\* x < y on size_t words, compared from limb i down.
SizeLessFrom(x, y, i) ==
    IF i = 0 THEN FALSE
    ELSE IF x[i] # y[i] THEN x[i] < y[i]
    ELSE SizeLessFrom(x, y, i - 1)

SizeLess(x, y) == SizeLessFrom(x, y, Limbs)

\* The values a field of a probed node takes: the small ones, and the ones
\* just below 2^64.
SizeValues ==
    {ToLimbs(n) : n \in 0..(MaxColumns + MaxExtraColumns)}
        \cup {NegLimbs(ToLimbs(j)) : j \in 1..MaxWrap}

WideNodes == [row : SizeValues, column : SizeValues, disparity : SizeValues]

\* DisparityGraph::checkNode on a node whose fields are size_t words.
checkNodeWide(node) ==
    IF ~SizeLess(node.row, ToLimbs(rightImage_.rows))
    THEN Thrown("Row should not be greater than the last one.")
    ELSE IF ~SizeLess(node.column, ToLimbs(rightImage_.columns))
    THEN Thrown("Column should not be greater than the last one.")
    ELSE IF ~SizeLess(SizeAdd(node.column, node.disparity),
                      ToLimbs(leftImage_.columns))
    THEN Thrown("Disparity should not lead to image overflow.")
    ELSE NoReturn

\* The column of the left image nodePenalty reads.
leftColumn(node) == SizeAdd(node.column, node.disparity)

\* DisparityGraph::nodePenalty after checkNode has returned: a read past the
\* end of a row of an image is undefined.
nodePenaltyWide(node) ==
    IF /\ SizeLess(node.row, ToLimbs(leftImage_.rows))
       /\ SizeLess(leftColumn(node), ToLimbs(leftImage_.columns))
    THEN LET difference ==
                 rightImage_.data[FromLimbs(node.row)][FromLimbs(node.column)]
                 - leftImage_.data[FromLimbs(node.row)][FromLimbs(leftColumn(node))]
         IN  Returned(Double(difference * difference, 1))
    ELSE [threw |-> FALSE, undefined |-> TRUE]

InitCheckNode ==
    /\ \E d \in Dimensions, consistency \in Consistencies :
          GraphIs(d, <<0, 1, 0>>, <<0, 1, 1>>, consistency)
    /\ pc = "constructed"
    /\ call = NoCall
    /\ ret = NoReturn
    /\ nodes_ = <<>>
    /\ penalty_ = Infinity
    /\ finder = <<>>
    /\ boolean = <<>>

\* graph.checkNode(node)
CheckNodeCall ==
    /\ pc = "constructed"
    /\ \E node \in WideNodes :
          /\ call' = [op |-> "checkNode", node |-> node]
          /\ ret' = checkNodeWide(node)
    /\ pc' = "returned"
    /\ UNCHANGED <<graphVars, nodes_, penalty_, finder, boolean>>

\* graph.nodePenalty(node)
NodePenaltyCall ==
    /\ pc = "constructed"
    /\ \E node \in WideNodes :
          /\ call' = [op |-> "nodePenalty", node |-> node]
          /\ ret' = IF checkNodeWide(node).threw THEN checkNodeWide(node)
                    ELSE nodePenaltyWide(node)
    /\ pc' = IF "undefined" \in DOMAIN ret' THEN "undefined behaviour"
             ELSE "returned"
    /\ UNCHANGED <<graphVars, nodes_, penalty_, finder, boolean>>

NextCheckNode ==
    \/ CheckNodeCall
    \/ NodePenaltyCall

SpecCheckNode == InitCheckNode /\ [][NextCheckNode]_vars

\* A size_t word is at least 2^24: one of its upper limbs is not zero.
IsHuge(w) == \E i \in 4..Limbs : w[i] # 0

\* n <= w for a size_t word w and a small natural n.
AtLeast(w, n) == IsHuge(w) \/ FromLimbs(w) >= n

\* n <= a + b, the sum of two size_t words taken in the naturals.
SumAtLeast(a, b, n) ==
    IsHuge(a) \/ IsHuge(b) \/ FromLimbs(a) + FromLimbs(b) >= n

\* C19: checkNode(t), and nodePenalty(t) through it, throws an argument error
\* whenever t.row >= R, t.column >= C_R or t.column + t.disparity >= C_L, for
\* every 64-bit value of the three fields, a disparity so large that the sum
\* wraps around included, and no call reads outside the left image.
C19_CheckNodeRejects ==
    call.op \in {"checkNode", "nodePenalty"} =>
        /\ pc # "undefined behaviour"
        /\ (\/ AtLeast(call.node.row, rightImage_.rows)
            \/ AtLeast(call.node.column, rightImage_.columns)
            \/ SumAtLeast(call.node.column, call.node.disparity,
                          leftImage_.columns)) =>
              /\ ret.threw
              /\ ret.what \in ArgumentErrors


\* ------------------------------------ a BooleanGraph right after initialize
\* The mask in which every node and every edge of the graph is available.
AllAvailable ==
    [nodesAvailability_ |->
        {<<nodeIndex(node), node.disparity>> : node \in AllNodes},
     edgesAvailability_ |->
        {edgeKey(e[1], e[2]) : e \in DirectedEdges}]

\* C20: on every valid graph the Boolean graph can be built; initialize
\* makes every node and every edge available whatever mask the removals
\* before it have left; isFinished called right after initialize returns
\* true and clears no bit; and the labeling extracted then (the first
\* available disparity of every pixel) is the labeling of all zeros.
C20_InitializeIsFinished ==
    [][/\ call'.op = "BooleanGraph" => pc' = "boolean graph"
       /\ call'.op = "initialize" =>
             /\ pc' = "initialized"
             /\ boolean' = AllAvailable
       /\ (call.op = "initialize" /\ call'.op = "isFinished") =>
             /\ pc' = "finished"
             /\ ret'.value = TRUE
             /\ boolean' = boolean
       /\ (/\ call.op = "isFinished"
           /\ boolean = AllAvailable
           /\ call'.op = "getBestLabeling_") =>
             /\ pc' = "labeling"
             /\ nodes_' = availableNodes]_vars


\* ------------------------------------- updates of the passed penalties
\* A finder that has been constructed (the assertion of initialize_ has
\* held) and whose passed penalties are all zero.
InitProcess ==
    /\ \E d \in FewPixels, patterns \in SmallPatterns,
          consistency \in Consistencies :
          GraphIs(d, patterns[1], patterns[2], consistency)
    /\ initializeAsserts_
    /\ pc = "diffusion finder"
    /\ call = NoCall
    /\ ret = NoReturn
    /\ nodes_ = availableNodes
    /\ penalty_ = Infinity
    /\ finder = [passedPenalties_ |-> resetPenalties_, i |-> 0]
    /\ boolean = initialize_

\* What an update leaves: the penalties, or the end of the run where an
\* assertion has failed or a double does not hold a penalty exactly.
Updated(op, after) ==
    IF \A key \in PenaltyKeys : Exact(after.pp[key])
    THEN /\ finder' = [passedPenalties_ |-> after.pp, i |-> finder.i + 1]
         /\ call' = op
         /\ pc' = IF after.asserts THEN pc ELSE "assertion failed"
    ELSE /\ finder' = finder
         /\ call' = op
         /\ pc' = "inexact"

\* processNode_(node) on any node at any of its disparities.
ProcessNode ==
    /\ pc = "diffusion finder"
    /\ finder.i < MaxUpdates
    /\ \E node \in AllNodes :
          \E after \in {processNode_([pp |-> finder.passedPenalties_,
                                      asserts |-> TRUE], node)} :
              Updated([op |-> "processNode_", nodeA |-> node], after)
    /\ UNCHANGED <<graphVars, ret, nodes_, penalty_, boolean>>

\* iteration_(): the updates of one colour, then those of the other.
ProcessIteration ==
    /\ pc = "diffusion finder"
    /\ finder.i < MaxUpdates
    /\ \E after \in {iteration_(finder.passedPenalties_, nodes_)} :
          Updated([op |-> "iteration_"], after)
    /\ UNCHANGED <<graphVars, ret, nodes_, penalty_, boolean>>

NextProcess ==
    \/ ProcessNode
    \/ ProcessIteration

SpecProcess == InitProcess /\ [][NextProcess]_vars

\* The penalty node passes to neighbor: the cell changePassedPenalty_ writes.
Passed(pp, node, neighbor) ==
    pp[<<nodeIndex(node), node.disparity,
         IF neighbor.row < node.row THEN 1
         ELSE IF neighbor.row > node.row THEN 3
         ELSE IF neighbor.column < node.column THEN 0
         ELSE 2>>]

RECURSIVE PassedSum(_, _, _)
\* The sum of the penalties node passes to the neighbours in the set.
PassedSum(pp, node, neighborSet) ==
    IF neighborSet = {} THEN Double(0, 1)
    ELSE LET neighbor == CHOOSE x \in neighborSet : TRUE
         IN  DAdd(Passed(pp, node, neighbor),
                  PassedSum(pp, node, neighborSet \ {neighbor}))

\* The reparametrized cost of the edge between two nodes of adjacent pixels.
Reparametrized(pp, a, b) ==
    DAdd(DAdd(Passed(pp, a, b), Passed(pp, b, a)), penalty(a, b))

RECURSIVE ReparametrizedSum(_, _, _)
\* The sum of the reparametrized costs along a labeling, every pair once.
ReparametrizedSum(pp, nodes, pairs) ==
    IF pairs = {} THEN Double(0, 1)
    ELSE LET e == CHOOSE x \in pairs : TRUE
         IN  DAdd(Reparametrized(pp, nodes[e[1]], nodes[e[2]]),
                  ReparametrizedSum(pp, nodes, pairs \ {e}))

NodesOfPhase(first) ==
    {node \in AllNodes : Parity(node) = (IF first THEN 0 ELSE 1)}

\* The cells of passedPenalties_ that processNode_(node) writes.
WrittenCells(node) ==
    {<<nodeIndex(node), node.disparity, passedNeighborIndex(node, neighbor)>> :
        neighbor \in SeqToSet(nodeNeighbors(node, FALSE))}

\* The cells of passedPenalties_ that processNode_(node) reads, through
\* minEdgePenalty_ and passedPenalty_ and in changePassedPenalty_.
ReadCells(node) ==
    WrittenCells(node)
        \cup UNION {{<<nodeIndex(other), other.disparity,
                       nodeNeighborIndex(node, other)>> :
                        other \in NeighborRange(node, neighbor)} :
                    neighbor \in SeqToSet(nodeNeighbors(node, FALSE))}

\* A finder as in InitProcess, before any thread of iteration_ is started.
InitPhase ==
    /\ \E d \in FewPixels, patterns \in SmallPatterns,
          consistency \in Consistencies :
          GraphIs(d, patterns[1], patterns[2], consistency)
    /\ initializeAsserts_
    /\ pc = "diffusion finder"
    /\ call = NoCall
    /\ ret = NoReturn
    /\ nodes_ = availableNodes
    /\ penalty_ = Infinity
    /\ finder = [passedPenalties_ |-> resetPenalties_, i |-> 0,
                 first |-> TRUE, pending |-> {}, updated |-> {},
                 started |-> resetPenalties_]
    /\ boolean = initialize_

\* thread t(&iterationThread_, this, modulo, i, first): the thread of a
\* colour is started; the first colour when iteration_ is entered.
PhaseStart ==
    /\ pc = "diffusion finder"
    /\ finder.i < MaxUpdates
    /\ call' = [op |-> "thread"]
    /\ finder' = [finder EXCEPT !.pending = NodesOfPhase(finder.first),
                                !.updated = IF finder.first THEN {} ELSE @,
                                !.started = finder.passedPenalties_]
    /\ pc' = "iterationThread_"
    /\ UNCHANGED <<graphVars, ret, nodes_, penalty_, boolean>>

\* One processNode_ of the running phase, the nodes taken in any order.
PhaseUpdate ==
    /\ pc = "iterationThread_"
    /\ \E node \in finder.pending :
          \E after \in {processNode_([pp |-> finder.passedPenalties_,
                                      asserts |-> TRUE], node)} :
              /\ call' = [op |-> "processNode_", nodeA |-> node]
              /\ IF \A key \in PenaltyKeys : Exact(after.pp[key])
                 THEN /\ finder' = [finder EXCEPT
                                       !.passedPenalties_ = after.pp,
                                       !.pending = @ \ {node},
                                       !.updated = @ \cup {node}]
                      /\ pc' = IF after.asserts THEN pc
                               ELSE "assertion failed"
                 ELSE /\ finder' = finder
                      /\ pc' = "inexact"
    /\ UNCHANGED <<graphVars, ret, nodes_, penalty_, boolean>>

\* t.join(): the phase is over when every node of it has been updated; the
\* other colour comes next, and after the second colour iteration_ returns.
PhaseJoin ==
    /\ pc = "iterationThread_"
    /\ finder.pending = {}
    /\ call' = [op |-> "join"]
    /\ finder' = [finder EXCEPT !.first = ~finder.first,
                                !.i = IF finder.first THEN @ ELSE @ + 1]
    /\ pc' = "diffusion finder"
    /\ UNCHANGED <<graphVars, ret, nodes_, penalty_, boolean>>

NextPhase ==
    \/ PhaseStart
    \/ PhaseUpdate
    \/ PhaseJoin

SpecPhase == InitPhase /\ [][NextPhase]_vars

\* C22: two different nodes updated in the same phase share no cell that
\* one of them writes and the other reads or writes; a node of the second
\* colour is updated only when every node of the first colour has been; and
\* the penalties a phase leaves are those iterationThread_ leaves, in
\* whatever order the nodes of the phase have been updated.
C22_PhasesAreIndependent ==
    /\ \A first \in BOOLEAN :
          \A a, b \in NodesOfPhase(first) :
              a # b => WrittenCells(a) \cap (ReadCells(b) \cup WrittenCells(b)) = {}
    /\ pc = "iterationThread_" =>
          /\ finder.pending \subseteq NodesOfPhase(finder.first)
          /\ finder.pending = {} =>
                finder.passedPenalties_
                    = iterationThread_([pp |-> finder.started, asserts |-> TRUE],
                                       nodes_, finder.first, 1).pp
    /\ (\E node \in finder.updated : (node.row + node.column) % 2 = 1) =>
          {node \in AllNodes : (node.row + node.column) % 2 = 0}
              \subseteq finder.updated

\* A phase of the second colour has ended after its nodes were updated, and
\* it has changed the penalties.
C22_Witness ==
    /\ pc = "iterationThread_"
    /\ ~finder.first
    /\ finder.pending = {}
    /\ Cardinality(NodesOfPhase(FALSE)) >= 2
    /\ finder.passedPenalties_ # finder.started


\* ------------------------------------- what isFinished leaves in the mask
\* The disparities of the pixel at position i whose node bit is set.
AvailableAt(i) ==
    {k \in 0..(leftImage_.columns - 1) :
        <<i - 1, k>> \in boolean.nodesAvailability_}

\* C23: isFinished returns true exactly when some node is still available
\* after the deletion loop; when it returns true every pixel has an
\* available disparity, and the extraction of getBestLabeling_ does not fail
\* its assertion; when it returns false no node bit and no edge bit is set.
C23_IsFinishedResult ==
    /\ (call.op = "isFinished" /\ pc = "finished") =>
          /\ ret.value <=> \E i \in 1..Len(nodes_) : AvailableAt(i) # {}
          /\ ret.value => \A i \in 1..Len(nodes_) : AvailableAt(i) # {}
          /\ ~ret.value =>
                /\ boolean.nodesAvailability_ = {}
                /\ boolean.edgesAvailability_ = {}
    /\ call.op = "getBestLabeling_" => pc = "labeling"

\* isFinished has returned false after removals that left some node with
\* every edge to one of its neighbours removed, on an image of several pixels.
C23_Witness ==
    /\ call.op = "isFinished"
    /\ pc = "finished"
    /\ ~ret.value
    /\ Len(nodes_) >= 3
    /\ leftImage_.columns > rightImage_.columns


\* --------------------------------------------- arc consistency of the mask
\* TRUE when, in the mask bg, the node has at every neighbouring pixel a
\* node of the set S to which its edge bit is set.
HasSupport(bg, S, node) ==
    \A pixel \in NeighborsInside(node) :
        \E other \in S :
            /\ other.row = pixel.row
            /\ other.column = pixel.column
            /\ edgeKey(node, other) \in bg.edgesAvailability_

RECURSIVE GreatestArcConsistent(_, _)
\* The greatest subset of S in which every node has support in the subset.
GreatestArcConsistent(bg, S) ==
    IF \A node \in S : HasSupport(bg, S, node) THEN S
    ELSE GreatestArcConsistent(bg, {node \in S : HasSupport(bg, S, node)})

\* The nodes whose bit is set in the mask bg.
AvailableNodes(bg) ==
    {node \in AllNodes :
        <<node.row * rightImage_.columns + node.column, node.disparity>>
            \in bg.nodesAvailability_}

\* C24: when isFinished returns true, every node that is still available
\* has, at every neighbouring pixel, an available node to which its edge
\* bit is set, and every node of the greatest arc-consistent part of the
\* mask isFinished was called on is still available.
C24_ArcConsistent ==
    [][(call'.op = "isFinished" /\ pc' = "finished" /\ ret'.value) =>
          \A left \in {AvailableNodes(boolean')} :
              /\ \A node \in left : HasSupport(boolean', left, node)
              /\ GreatestArcConsistent(boolean, AvailableNodes(boolean))
                    \subseteq left]_vars

\* isFinished has returned true after it removed nodes, on a mask from which
\* edges had been removed.
C24_Witness ==
    /\ call.op = "isFinished"
    /\ pc = "finished"
    /\ ret.value
    /\ Cardinality(Removed) >= 2
    /\ \E node \in AllNodes : node \notin AvailableNodes(boolean)
    /\ \E node \in AvailableNodes(boolean) : node.disparity > 0


\* ------------------------------------------- the sweeps of isFinished
\* One call of deletionIteration_ in the loop of isFinished; the first one
\* is made when isFinished is entered.  finder counts the sweeps.
Sweep ==
    /\ pc \in {"initialized", "deletionIteration_"}
    /\ \E turn \in {deletionIteration_(boolean, FALSE)} :
          /\ call' = [op |-> "deletionIteration_", changed |-> turn.changed]
          /\ boolean' = turn.bg
          /\ pc' = IF turn.changed THEN "deletionIteration_" ELSE "swept"
    /\ finder' = [sweeps |-> IF pc = "initialized" THEN 1
                             ELSE finder.sweeps + 1]
    /\ UNCHANGED <<graphVars, ret, nodes_, penalty_>>

\* The end of isFinished once a sweep has returned false: the search for an
\* available node.
SweepReturn ==
    /\ pc = "swept"
    /\ call' = [op |-> "isFinished"]
    /\ ret' = Returned(\E node \in AllNodes : nodeAvailable(boolean, node))
    /\ pc' = "finished"
    /\ UNCHANGED <<graphVars, nodes_, penalty_, finder, boolean>>

NextSweep ==
    \/ BooleanGraphConstruct
    \/ Initialize
    \/ RemoveEdge
    \/ Sweep
    \/ SweepReturn

SpecSweep == InitBoolean /\ [][NextSweep]_vars

\* C25: a sweep of the deletion loop sets no bit that was not set, a sweep
\* that reports a change has cleared a node bit, the sweeps of one call are
\* no more than the nodes of the graph and one, so that the loop, which
\* ends at the first sweep that reports no change, ends.
C25_SweepsTerminate ==
    [][call'.op = "deletionIteration_" =>
          /\ boolean'.nodesAvailability_ \subseteq boolean.nodesAvailability_
          /\ boolean'.edgesAvailability_ \subseteq boolean.edgesAvailability_
          /\ call'.changed =>
                boolean'.nodesAvailability_ # boolean.nodesAvailability_
          /\ finder'.sweeps <= Cardinality(AllNodes) + 1]_vars

\* A call of isFinished has taken three sweeps or more.
C25_Witness ==
    /\ pc = "finished"
    /\ call.op = "isFinished"
    /\ finder.sweeps >= 3


\* ------------------------------- the labeling BFDisparityFinder works on
\* C26: while BFDisparityFinder::find runs, no setNode throws, and the
\* labeling it works on has a valid node at every pixel and an edge between
\* the nodes of every two adjacent pixels, so that no penalty() fails.
C26_BruteForceStaysFeasible ==
    call.op = "find" =>
        /\ pc \notin {"invalid_argument", "assertion failed"}
        /\ Len(nodes_) = rightImage_.rows * rightImage_.columns
        /\ \A i \in 1..Len(nodes_) : IsValid(nodes_[i])
        /\ IsFeasible(nodes_)


\* --------------------------------------------- the threshold of find
\* C27: the threshold DiffusionDisparityFinder::find passes to isFinished_
\* is 1 / (8 * rows * columns), which is greater than zero.
C27_ThresholdIsPositive ==
    call.op = "diffusion find" =>
        /\ threshold = Double(1, 8 * rightImage_.rows * rightImage_.columns)
        /\ DLess(Double(0, 1), threshold)


\* ------------------------------------- the edges of a node after its update
RECURSIVE MinimaSum(_, _, _, _)
\* The sum of minEdgePenalty_(node, neighbor) over the neighbours of the
\* node from position i on.
MinimaSum(pp, node, neighborsOfNode, i) ==
    IF i > Len(neighborsOfNode) THEN Double(0, 1)
    ELSE DAdd(minEdgePenalty_(pp, node, neighborsOfNode[i]),
              MinimaSum(pp, node, neighborsOfNode, i + 1))

DualPatterns ==
    {<<<<0, 1, 0>>, <<0, 1, 1>>>>, <<<<1, 1, 0>>, <<0, 1, 1>>>>}

\* A constructed finder whose passed penalties are all zero.
InitDual ==
    /\ \E d \in FewPixels, patterns \in DualPatterns,
          consistency \in Consistencies :
          GraphIs(d, patterns[1], patterns[2], consistency)
    /\ initializeAsserts_
    /\ pc = "diffusion finder"
    /\ call = NoCall
    /\ ret = NoReturn
    /\ nodes_ = availableNodes
    /\ penalty_ = Infinity
    /\ finder = [passedPenalties_ |-> resetPenalties_, i |-> 0]
    /\ boolean = initialize_

\* The body of the loop of iterationThread_ on one pixel: processNode_ at
\* every disparity of the pixel.
ProcessPixel ==
    /\ pc = "diffusion finder"
    /\ finder.i < MaxUpdates
    /\ \E i \in 1..Len(nodes_) :
          \E after \in {ProcessDisparities([pp |-> finder.passedPenalties_,
                                            asserts |-> TRUE], nodes_[i], 1)} :
              Updated([op |-> "iterationThread_", nodeA |-> nodes_[i]], after)
    /\ UNCHANGED <<graphVars, ret, nodes_, penalty_, boolean>>

NextDual ==
    \/ ProcessNode
    \/ ProcessPixel
    \/ ProcessIteration

SpecDual == InitDual /\ [][NextDual]_vars

\* The reparametrized penalties of the edges between two adjacent pixels.
ReparametrizedBetween(pp, pixel, neighbor) ==
    UNION {{Reparametrized(pp, WithDisparity(pixel, k), other) :
               other \in NeighborRange(WithDisparity(pixel, k), neighbor)} :
           k \in SeqToSet(graphNodeDisparities(pixel))}

Least(penalties) ==
    CHOOSE x \in penalties : \A y \in penalties : DLessEq(x, y)

RECURSIVE LowerBoundOver(_, _)
\* The sum, over the pairs of adjacent pixels, of the least reparametrized
\* penalty of an edge between the two pixels.
LowerBoundOver(pp, pairs) ==
    IF pairs = {} THEN Double(0, 1)
    ELSE LET e == CHOOSE x \in pairs : TRUE
         IN  DAdd(Least(ReparametrizedBetween(pp, availableNodes[e[1]],
                                              availableNodes[e[2]])),
                  LowerBoundOver(pp, pairs \ {e}))

LowerBound(pp) == LowerBoundOver(pp, AdjacentPairs)

\* FeasibleLabelings, built from the disparities of the pixels.
FeasibleByDisparities ==
    {nodes \in
        {[i \in 1..Len(availableNodes) |->
             WithDisparity(availableNodes[i], disparities[i])] :
         disparities \in [1..Len(availableNodes) ->
                             0..(leftImage_.columns - 1)]} :
        /\ \A i \in 1..Len(nodes) : IsValid(nodes[i])
        /\ IsFeasible(nodes)}

\* The least total penalty of a feasible labeling.
LeastTotalPenalty ==
    Least({TotalPenalty(nodes) : nodes \in FeasibleByDisparities})

C30_EdgeBitsImplyNodeBits ==
    pc \in {"initialized", "deletionIteration_", "swept", "finished"} =>
        /\ boolean.edgesAvailability_
               \subseteq {edgeKey(e[1], e[2]) : e \in DirectedEdges}
        /\ \A e \in DirectedEdges :
              edgeAvailable_(boolean, e[1], e[2]) =>
                  nodeAvailable(boolean, e[1]) /\ nodeAvailable(boolean, e[2])
        /\ \A node \in AllNodes :
              \A neighbor \in SeqToSet(nodeNeighbors(node, FALSE)) :
                  Supported(boolean, node, neighbor)
                      <=> \E other \in NeighborRange(node, neighbor) :
                             /\ nodeAvailable(boolean, other)
                             /\ edgeAvailable_(boolean, node, other)

\* A sweep has removed a node, after edges had been removed, and has left
\* other nodes and edges.
C30_Witness ==
    /\ pc \in {"deletionIteration_", "swept"}
    /\ call.op = "deletionIteration_"
    /\ call.changed
    /\ \E node \in AllNodes : ~nodeAvailable(boolean, node)
    /\ boolean.edgesAvailability_ # {}
    /\ \E node \in AllNodes :
          \E neighbor \in SeqToSet(nodeNeighbors(node, FALSE)) :
              /\ nodeAvailable(boolean, node)
              /\ \E other \in NeighborRange(node, neighbor) :
                    ~edgeAvailable_(boolean, node, other)

====
